---- MODULE Spec2Model ----
(***************************************************************************)
(* User management service with span enrichment (package oteltracer):      *)
(* the /users/ dispatcher of main.go, the five UserHandler methods of      *)
(* handlers.go, the five UserRepository methods of repository.go and the   *)
(* go_user_tbl table they operate on.                                      *)
(*                                                                         *)
(* A request path is a sequence of one-character-or-word tokens; "/" is    *)
(* the separator token.  Strings produced from paths are TLA+ strings.     *)
(* A request is served in two steps: the dispatcher and the handler up to  *)
(* its call into the repository, then the repository operation (one SQL    *)
(* statement, atomic in the database) and the rest of the handler.  The    *)
(* table is the only state requests share and a request touches it in one  *)
(* statement, so Spec serves the requests one after the other.             *)
(*                                                                         *)
(* Besides oteltracer, which enriches the span found in the request's      *)
(* context, the module holds the variant whose handlers and repository     *)
(* start spans of their own (otelapi_ definitions), the demo that calls an *)
(* external API under two spans (demo_ definitions) and the program        *)
(* without spans (untraced_ definitions).  SpecAll runs any of the three   *)
(* programs with spans, SpecTraced the two that start spans, SpecUntraced  *)
(* the program without spans, SpecService any of the three programs of the *)
(* user service, and SpecConc serves two requests at the same time.        *)
(***************************************************************************)
EXTENDS Integers, Sequences, FiniteSets, TLC

\* Largest reading of time.Now() the model explores.
MaxClock == 4

\* Trace ids the tracer generates in a run.
MaxTraces == 2

\* Goroutines serving requests; Spec serves with the first only.
Workers == {1, 2}
Serial == {1}

-----------------------------------------------------------------------------
(* Value domains of the requests                                           *)

Methods == {"GET", "POST", "PUT", "DELETE", "PATCH"}

Usernames == {"johndoe", "janedoe"}
Names == {"John Doe", "Jane Doe"}
Emails == {"john.doe@example.com", "jane.doe@example.com"}

UsersPrefix == <<"/", "users", "/">>
HealthPath == <<"/", "health">>

\* r.URL.Path values the mux hands to the two functions.  The path is the
\* decoded one: /users/%2F arrives as /users//.
Paths ==
  { UsersPrefix,
    UsersPrefix \o <<"johndoe">>,
    UsersPrefix \o <<"janedoe">>,
    UsersPrefix \o <<"johndoe", "/", "janedoe">>,
    UsersPrefix \o <<"/">>,
    UsersPrefix \o <<"/", "johndoe">>,
    HealthPath }

\* A JSON object body: a missing member decodes to the zero value.
BaseBody ==
  [username |-> "johndoe", name |-> "John Doe",
   email |-> "john.doe@example.com", age |-> 30]

ValidBodies ==
  [username : Usernames, name : Names, email : Emails, age : {30}]

InvalidBodies ==
  { [BaseBody EXCEPT !.username = ""], [BaseBody EXCEPT !.name = ""],
    [BaseBody EXCEPT !.email = ""], [BaseBody EXCEPT !.age = 0],
    [BaseBody EXCEPT !.age = -1] }

\* "bad" is a body json.Decode fails on; "none" is an absent body.
BadBody == [username |-> "bad", name |-> "bad", email |-> "bad", age |-> 0]
NoBody == [username |-> "none", name |-> "none", email |-> "none", age |-> 0]

Bodies == ValidBodies \cup InvalidBodies \cup {BadBody}

-----------------------------------------------------------------------------
(* strings package                                                         *)

RECURSIVE Str(_)
\* The string a token sequence spells.
Str(s) == IF s = <<>> THEN "" ELSE Head(s) \o Str(Tail(s))

HasPrefix(s, p) == Len(s) >= Len(p) /\ SubSeq(s, 1, Len(p)) = p

TrimPrefix(s, p) == IF HasPrefix(s, p) THEN SubSeq(s, Len(p) + 1, Len(s)) ELSE s

RECURSIVE TrimLeft(_, _)
TrimLeft(s, c) ==
  IF s # <<>> /\ Head(s) = c THEN TrimLeft(Tail(s), c) ELSE s

RECURSIVE TrimRight(_, _)
TrimRight(s, c) ==
  IF s # <<>> /\ s[Len(s)] = c THEN TrimRight(SubSeq(s, 1, Len(s) - 1), c) ELSE s

Trim(s, c) == TrimRight(TrimLeft(s, c), c)

RECURSIVE SplitFrom(_, _, _)
\* strings.Split: cur is the part being read; an empty input gives <<"">>.
SplitFrom(s, c, cur) ==
  IF s = <<>> THEN <<Str(cur)>>
  ELSE IF Head(s) = c THEN <<Str(cur)>> \o SplitFrom(Tail(s), c, <<>>)
  ELSE SplitFrom(Tail(s), c, Append(cur, Head(s)))

Split(s, c) == SplitFrom(s, c, <<>>)

-----------------------------------------------------------------------------
(* handlers.go: extractUsernameFromPath                                    *)

\* Variant: the check for an empty second part is missing.
extractUsernameFromPath_NoEmptyCheck(path) ==
  LET parts == Split(Trim(path, "/"), "/") IN
  IF Len(parts) < 2 THEN [ok |-> FALSE, username |-> ""]
  ELSE [ok |-> TRUE, username |-> parts[2]]

\* Variant: a path with more than two parts is rejected.
extractUsernameFromPath_TwoPartsOnly(path) ==
  LET parts == Split(Trim(path, "/"), "/") IN
  IF Len(parts) # 2 THEN [ok |-> FALSE, username |-> ""]
  ELSE IF parts[2] = "" THEN [ok |-> FALSE, username |-> ""]
  ELSE [ok |-> TRUE, username |-> parts[2]]

extractUsernameFromPath(path) ==
  LET parts == Split(Trim(path, "/"), "/") IN
  IF Len(parts) < 2 THEN [ok |-> FALSE, username |-> ""]
  ELSE IF parts[2] = "" THEN [ok |-> FALSE, username |-> ""]
  ELSE [ok |-> TRUE, username |-> parts[2]]

-----------------------------------------------------------------------------
(* State                                                                   *)

VARIABLES
  store,     \* go_user_tbl: username -> row
  clock,     \* last reading of time.Now()
  pc,        \* per worker: "idle", "store" (inside the repository call), "done"
  req,       \* per worker: the request being served
  log,       \* per worker: calls made while serving the request, in order
  call,      \* per worker: the repository call the handler is blocked in
  ret,       \* per worker: what the repository call returned, and the fault
             \* that struck during it ("" when none did)
  resp,      \* per worker: the response written
  span,      \* per worker: the span held by the request's context
  spans,     \* per worker: the spans the request has started, in order
  traces,    \* number of trace ids the tracer has generated
  program,   \* the program that is running
  created,   \* username -> entity the last successful CreateUser returned,
             \* dropped by a successful UpdateUser or DeleteUser
  deleted    \* usernames deleted successfully and not created since

vars == <<store, clock, pc, req, log, call, ret, resp, span, spans, traces,
          program, created, deleted>>

\* models.go: User
User(username, name, email, age, created_at, updated_at) ==
  [username |-> username, name |-> name, email |-> email, age |-> age,
   created_at |-> created_at, updated_at |-> updated_at]

\* A TIMESTAMP column keeps fewer digits than time.Time carries.
DbTimestamp(t) == t - (t % 2)

NoRequest == [method |-> "", path |-> <<>>, body |-> NoBody, ambient |-> FALSE]
NoCall == [op |-> "", username |-> "", body |-> NoBody, ctx |-> ""]
NoReturn == [err |-> "", users |-> <<>>, fault |-> ""]
NoResponse == [status |-> 0, kind |-> "", text |-> "", users |-> <<>>]
NoSpan == [attrs |-> {}, errs |-> <<>>]

-----------------------------------------------------------------------------
(* Calls recorded in log                                                   *)

\* layer: the function making the call, whose variable span is the target of
\* a span call. ctx: the context handed to the call, "request" for
\* r.Context() or the layer whose tracer.Start returned it.
Event(ev, layer, attrs, arg, code, ctx) ==
  [ev |-> ev, layer |-> layer, attrs |-> attrs, arg |-> arg, code |-> code,
   ctx |-> ctx]

Invoke(name) == Event("Handler", "handler", {}, name, 0, "request")
RepoCall(name) == Event("Repo", "repo", {}, name, 0, "request")
DbOp(stmt) == Event("Db", "repo", {}, stmt, 0, "request")
SetAttributes(layer, attrs) == Event("SetAttributes", layer, attrs, "", 0, "")
RecordError(layer, err) == Event("RecordError", layer, {}, err, 0, "")
WriteHeader(code) == Event("WriteHeader", "handler", {}, "", code, "")
Start(layer, name, ctx) == Event("Start", layer, {}, name, 0, ctx)
End(layer) == Event("End", layer, {}, "", 0, "")

\* trace.SpanFromContext on a context without a span gives a span that
\* accepts every call and keeps nothing.
ApplyEvent(sp, e, ambient) ==
  IF ~ambient THEN sp
  ELSE IF e.ev = "SetAttributes"
    THEN [sp EXCEPT !.attrs =
            {p \in sp.attrs : \A q \in e.attrs : q[1] # p[1]} \cup e.attrs]
  ELSE IF e.ev = "RecordError" THEN [sp EXCEPT !.errs = Append(sp.errs, e.arg)]
  ELSE sp

\* A span an application function started.
NewSpan(layer, name, trace, parent) ==
  [layer |-> layer, name |-> name, trace |-> trace, parent |-> parent,
   attrs |-> {}, errs |-> <<>>, ends |-> 0, late |-> 0]

\* The span the variable span of a layer holds: its place in the spans the
\* request started, 0 when the layer started none.
Held(app, layer) ==
  LET s == {i \in 1..Len(app) : app[i].layer = layer} IN
  IF s = {} THEN 0 ELSE CHOOSE i \in s : \A j \in s : j <= i

\* Variant: every span is made the root of a trace of its own.
TracerStart_AlwaysRoot(t, e, amb, base) ==
  [t EXCEPT !.app = Append(@, NewSpan(e.layer, e.arg, base + t.minted + 1, "")),
            !.minted = @ + 1]

\* tracer.Start(ctx, name): a child of the span ctx holds, in its trace; a
\* root span of a new trace when ctx holds none. amb is the trace id of the
\* span the request's context holds (0: none), base the ids generated before
\* the step.
TracerStart(t, e, amb, base) ==
  LET p == IF e.ctx = "request" THEN 0 ELSE Held(t.app, e.ctx) IN
  IF p # 0
    THEN [t EXCEPT !.app = Append(@, NewSpan(e.layer, e.arg, t.app[p].trace,
                                             t.app[p].name))]
  ELSE IF amb # 0
    THEN [t EXCEPT !.app = Append(@, NewSpan(e.layer, e.arg, amb, "ambient"))]
  ELSE [t EXCEPT !.app = Append(@, NewSpan(e.layer, e.arg,
                                           base + t.minted + 1, "")),
                 !.minted = @ + 1]

\* SetAttributes, RecordError and End on a span the application started; a
\* span that has ended keeps what it had.
SpanCall(sp, e) ==
  IF sp.ends > 0
    THEN [sp EXCEPT !.late = @ + 1,
                    !.ends = IF e.ev = "End" THEN @ + 1 ELSE @]
  ELSE IF e.ev = "End" THEN [sp EXCEPT !.ends = 1]
  ELSE ApplyEvent(sp, e, TRUE)

\* One call, on the spans of the request: t.amb is the span the request's
\* context holds, t.app the spans started, t.minted the trace ids generated.
TraceEvent(t, e, amb, base) ==
  IF e.ev = "Start" THEN TracerStart(t, e, amb, base)
  ELSE IF e.ev \in {"SetAttributes", "RecordError", "End"}
    THEN LET i == Held(t.app, e.layer) IN
         IF i = 0 THEN [t EXCEPT !.amb = ApplyEvent(@, e, amb # 0)]
         ELSE [t EXCEPT !.app[i] = SpanCall(@, e)]
  ELSE t

RECURSIVE TraceEvents(_, _, _, _)
TraceEvents(t, es, amb, base) ==
  IF es = <<>> THEN t
  ELSE TraceEvents(TraceEvent(t, Head(es), amb, base), Tail(es), amb, base)

\* Variant: the handlers keep the span in a variable of the package.
SpanFromContext_PackageVariable(w) == 1

\* trace.SpanFromContext(r.Context()), and the variables span and ctx of the
\* functions serving a request: each request has its own.
SpanFromContext(w) == w

\* The trace of the span the agent put in the request's context: the agent
\* generates its ids apart from the application's tracer.
AmbientTrace(w, r) == IF r.ambient THEN 0 - w ELSE 0

\* http.Error: status line and a plain-text message.
HttpError(events, text, code) ==
  [events |-> Append(events, WriteHeader(code)),
   call |-> NoCall,
   resp |-> [status |-> code, kind |-> "text", text |-> text, users |-> <<>>]]

\* The handler calls into the repository and blocks there; ctx is the
\* context it hands over.
DelegateIn(events, op, username, body, ctx) ==
  [events |-> events,
   call |-> [op |-> op, username |-> username, body |-> body, ctx |-> ctx],
   resp |-> NoResponse]

\* h.repo.X(r.Context(), ...)
Delegate(events, op, username, body) ==
  DelegateIn(events, op, username, body, "request")

RequestAttributes(r, operation) ==
  SetAttributes("handler",
    { <<"apm.http.method", r.method>>, <<"apm.http.url", Str(r.path)>>,
      <<"apm.operation", operation>> })

\* json.NewDecoder(r.Body).Decode fails on a body that is not a JSON object.
DecodeFails(body) == body = BadBody \/ body = NoBody

-----------------------------------------------------------------------------
(* models.go: what json decoding keeps of a body                           *)

\* CreateUserRequest: username, name, email, age.
CreateUserRequest(body) ==
  [username |-> body.username, name |-> body.name,
   email |-> body.email, age |-> body.age]

\* UpdateUserRequest has no username member: the decoder drops the body's.
UpdateUserRequest(body) ==
  [username |-> "", name |-> body.name, email |-> body.email, age |-> body.age]

-----------------------------------------------------------------------------
(* handlers.go: each handler up to its call into the repository            *)

\* Variant: the handler gives up when the context holds no span.
UserHandler_GetUser_RequiresSpan(r) ==
  LET e0 == <<Invoke("GetUser"), RequestAttributes(r, "get_user")>>
      x == extractUsernameFromPath(r.path) IN
  IF ~r.ambient THEN HttpError(e0, "No active span", 500)
  ELSE IF r.method # "GET" THEN HttpError(e0, "Method not allowed", 405)
  ELSE IF ~x.ok THEN HttpError(e0, "Invalid username", 400)
  ELSE Delegate(
         Append(e0, SetAttributes("handler", {<<"apm.user.username", x.username>>})),
         "GetUserByUsername", x.username, NoBody)

UserHandler_GetUser(r) ==
  LET e0 == <<Invoke("GetUser"), RequestAttributes(r, "get_user")>>
      x == extractUsernameFromPath(r.path) IN
  IF r.method # "GET" THEN HttpError(e0, "Method not allowed", 405)
  ELSE IF ~x.ok THEN HttpError(e0, "Invalid username", 400)
  ELSE Delegate(
         Append(e0, SetAttributes("handler", {<<"apm.user.username", x.username>>})),
         "GetUserByUsername", x.username, NoBody)

UserHandler_CreateUser(r) ==
  LET e0 == <<Invoke("CreateUser"), RequestAttributes(r, "create_user")>>
      body == CreateUserRequest(r.body)
      e1 == Append(e0, SetAttributes("handler",
              {<<"apm.user.username", body.username>>,
               <<"apm.user.email", body.email>>})) IN
  IF r.method # "POST" THEN HttpError(e0, "Method not allowed", 405)
  ELSE IF DecodeFails(r.body) THEN HttpError(e0, "Invalid request body", 400)
  ELSE IF body.username = "" \/ body.name = "" \/ body.email = "" \/ body.age <= 0
    THEN HttpError(e1, "Username, name, email, and age are required", 400)
  ELSE Delegate(e1, "CreateUser", "", body)

UserHandler_GetAllUsers(r) ==
  LET e0 == <<Invoke("GetAllUsers"), RequestAttributes(r, "get_all_users")>> IN
  IF r.method # "GET" THEN HttpError(e0, "Method not allowed", 405)
  ELSE Delegate(e0, "GetAllUsers", "", NoBody)

\* Variant: the age check rejects negative ages only.
UserHandler_UpdateUser_AgeNegativeOnly(r) ==
  LET e0 == <<Invoke("UpdateUser"), RequestAttributes(r, "update_user")>>
      x == extractUsernameFromPath(r.path)
      e1 == Append(e0, SetAttributes("handler", {<<"apm.user.username", x.username>>}))
      body == UpdateUserRequest(r.body) IN
  IF r.method # "PUT" THEN HttpError(e0, "Method not allowed", 405)
  ELSE IF ~x.ok THEN HttpError(e0, "Invalid username", 400)
  ELSE IF DecodeFails(r.body) THEN HttpError(e1, "Invalid request body", 400)
  ELSE IF body.name = "" \/ body.email = "" \/ body.age < 0
    THEN HttpError(e1, "Name, email, and age are required", 400)
  ELSE Delegate(e1, "UpdateUser", x.username, body)

\* Variant: the identity is taken from the payload when it carries one.
UserHandler_UpdateUser_PayloadIdentity(r) ==
  LET e0 == <<Invoke("UpdateUser"), RequestAttributes(r, "update_user")>>
      x == extractUsernameFromPath(r.path)
      e1 == Append(e0, SetAttributes("handler", {<<"apm.user.username", x.username>>}))
      body == UpdateUserRequest(r.body) IN
  IF r.method # "PUT" THEN HttpError(e0, "Method not allowed", 405)
  ELSE IF ~x.ok THEN HttpError(e0, "Invalid username", 400)
  ELSE IF DecodeFails(r.body) THEN HttpError(e1, "Invalid request body", 400)
  ELSE IF body.name = "" \/ body.email = "" \/ body.age <= 0
    THEN HttpError(e1, "Name, email, and age are required", 400)
  ELSE Delegate(e1, "UpdateUser",
         IF r.body.username # "" THEN r.body.username ELSE x.username, body)

UserHandler_UpdateUser(r) ==
  LET e0 == <<Invoke("UpdateUser"), RequestAttributes(r, "update_user")>>
      x == extractUsernameFromPath(r.path)
      e1 == Append(e0, SetAttributes("handler", {<<"apm.user.username", x.username>>}))
      body == UpdateUserRequest(r.body) IN
  IF r.method # "PUT" THEN HttpError(e0, "Method not allowed", 405)
  ELSE IF ~x.ok THEN HttpError(e0, "Invalid username", 400)
  ELSE IF DecodeFails(r.body) THEN HttpError(e1, "Invalid request body", 400)
  ELSE IF body.name = "" \/ body.email = "" \/ body.age <= 0
    THEN HttpError(e1, "Name, email, and age are required", 400)
  ELSE Delegate(e1, "UpdateUser", x.username, body)

\* Variant: the request attributes are set once the request has passed the
\* checks.
UserHandler_DeleteUser_EnrichesLate(r) ==
  LET e0 == <<Invoke("DeleteUser")>>
      x == extractUsernameFromPath(r.path) IN
  IF r.method # "DELETE" THEN HttpError(e0, "Method not allowed", 405)
  ELSE IF ~x.ok THEN HttpError(e0, "Invalid username", 400)
  ELSE Delegate(
         e0 \o <<RequestAttributes(r, "delete_user"),
                 SetAttributes("handler", {<<"apm.user.username", x.username>>})>>,
         "DeleteUser", x.username, NoBody)

UserHandler_DeleteUser(r) ==
  LET e0 == <<Invoke("DeleteUser"), RequestAttributes(r, "delete_user")>>
      x == extractUsernameFromPath(r.path) IN
  IF r.method # "DELETE" THEN HttpError(e0, "Method not allowed", 405)
  ELSE IF ~x.ok THEN HttpError(e0, "Invalid username", 400)
  ELSE Delegate(
         Append(e0, SetAttributes("handler", {<<"apm.user.username", x.username>>})),
         "DeleteUser", x.username, NoBody)

-----------------------------------------------------------------------------
(* main.go: the function registered for "/users/"                          *)

\* Variant: the PUT and DELETE cases are exchanged.
Route_PutDeleteSwapped(method, username) ==
  IF username = ""
    THEN CASE method = "GET" -> "GetAllUsers"
           [] method = "POST" -> "CreateUser"
           [] OTHER -> ""
    ELSE CASE method = "GET" -> "GetUser"
           [] method = "PUT" -> "DeleteUser"
           [] method = "DELETE" -> "UpdateUser"
           [] OTHER -> ""

\* The handler the switch selects, "" when it answers 405 itself.
Route(method, username) ==
  IF username = ""
    THEN CASE method = "GET" -> "GetAllUsers"
           [] method = "POST" -> "CreateUser"
           [] OTHER -> ""
    ELSE CASE method = "GET" -> "GetUser"
           [] method = "PUT" -> "UpdateUser"
           [] method = "DELETE" -> "DeleteUser"
           [] OTHER -> ""

\* Variant: the default cases answer 400.
UsersHandleFunc_DefaultBadRequest(r) ==
  LET username == Str(TrimPrefix(r.path, UsersPrefix))
      h == Route(r.method, username) IN
  CASE h = "GetAllUsers" -> UserHandler_GetAllUsers(r)
    [] h = "CreateUser" -> UserHandler_CreateUser(r)
    [] h = "GetUser" -> UserHandler_GetUser(r)
    [] h = "UpdateUser" -> UserHandler_UpdateUser(r)
    [] h = "DeleteUser" -> UserHandler_DeleteUser(r)
    [] OTHER -> HttpError(<<>>, "Method not allowed", 400)

UsersHandleFunc(r) ==
  LET username == Str(TrimPrefix(r.path, UsersPrefix))
      h == Route(r.method, username) IN
  CASE h = "GetAllUsers" -> UserHandler_GetAllUsers(r)
    [] h = "CreateUser" -> UserHandler_CreateUser(r)
    [] h = "GetUser" -> UserHandler_GetUser(r)
    [] h = "UpdateUser" -> UserHandler_UpdateUser(r)
    [] h = "DeleteUser" -> UserHandler_DeleteUser(r)
    [] OTHER -> HttpError(<<>>, "Method not allowed", 405)

\* main.go: the function registered for "/health".
HealthHandleFunc(r) ==
  [events |-> <<WriteHeader(200)>>,
   call |-> NoCall,
   resp |-> [status |-> 200, kind |-> "text", text |-> "OK", users |-> <<>>]]

-----------------------------------------------------------------------------
(* go_user_tbl: username PRIMARY KEY, email UNIQUE; the five statements    *)

ErrNoRows == "sql: no rows in result set"
ErrPrimaryKey == "pq: duplicate key value violates unique constraint go_user_tbl_pkey"
ErrUniqueEmail == "pq: duplicate key value violates unique constraint go_user_tbl_email_key"

\* ORDER BY username
UsernameOrder == <<"janedoe", "johndoe">>

RECURSIVE RowsInOrder(_, _)
RowsInOrder(st, order) ==
  IF order = <<>> THEN <<>>
  ELSE IF Head(order) \in DOMAIN st
    THEN <<st[Head(order)]>> \o RowsInOrder(st, Tail(order))
  ELSE RowsInOrder(st, Tail(order))

\* Variant: INSERT ... ON CONFLICT (username) DO UPDATE, which replaces the
\* row of a username that has one.
SqlInsert_Upsert(st, username, name, email, age, created_at, updated_at) ==
  LET row == User(username, name, email, age,
                  DbTimestamp(created_at), DbTimestamp(updated_at)) IN
  IF \E k \in DOMAIN st : k # username /\ st[k].email = email
    THEN [err |-> ErrUniqueEmail, rows |-> <<>>, store |-> st]
  ELSE [err |-> "", rows |-> <<row>>,
        store |-> [k \in DOMAIN st \cup {username} |->
                     IF k = username THEN row ELSE st[k]]]

\* INSERT INTO go_user_tbl ... RETURNING ...
SqlInsert(st, username, name, email, age, created_at, updated_at) ==
  LET row == User(username, name, email, age,
                  DbTimestamp(created_at), DbTimestamp(updated_at)) IN
  IF username \in DOMAIN st
    THEN [err |-> ErrPrimaryKey, rows |-> <<>>, store |-> st]
  ELSE IF \E k \in DOMAIN st : st[k].email = email
    THEN [err |-> ErrUniqueEmail, rows |-> <<>>, store |-> st]
  ELSE [err |-> "", rows |-> <<row>>,
        store |-> [k \in DOMAIN st \cup {username} |->
                     IF k = username THEN row ELSE st[k]]]

\* SELECT ... FROM go_user_tbl WHERE username = $1
SqlSelectByUsername(st, username) ==
  IF username \in DOMAIN st THEN <<st[username]>> ELSE <<>>

\* SELECT ... FROM go_user_tbl ORDER BY username
SqlSelectAll(st) == RowsInOrder(st, UsernameOrder)

\* Variant: the statement assigns created_at as well.
SqlUpdate_SetsCreatedAt(st, name, email, age, updated_at, username) ==
  IF username \notin DOMAIN st
    THEN [err |-> "", rows |-> <<>>, store |-> st]
  ELSE IF \E k \in DOMAIN st : k # username /\ st[k].email = email
    THEN [err |-> ErrUniqueEmail, rows |-> <<>>, store |-> st]
  ELSE LET row == [st[username] EXCEPT !.name = name, !.email = email,
                     !.age = age, !.updated_at = DbTimestamp(updated_at),
                     !.created_at = DbTimestamp(updated_at)] IN
       [err |-> "", rows |-> <<row>>, store |-> [st EXCEPT ![username] = row]]

\* UPDATE go_user_tbl SET name, email, age, updated_at WHERE username = $5
\* RETURNING ...
SqlUpdate(st, name, email, age, updated_at, username) ==
  IF username \notin DOMAIN st
    THEN [err |-> "", rows |-> <<>>, store |-> st]
  ELSE IF \E k \in DOMAIN st : k # username /\ st[k].email = email
    THEN [err |-> ErrUniqueEmail, rows |-> <<>>, store |-> st]
  ELSE LET row == [st[username] EXCEPT !.name = name, !.email = email,
                     !.age = age, !.updated_at = DbTimestamp(updated_at)] IN
       [err |-> "", rows |-> <<row>>, store |-> [st EXCEPT ![username] = row]]

\* DELETE FROM go_user_tbl WHERE username = $1
SqlDelete(st, username) ==
  IF username \in DOMAIN st
    THEN [affected |-> 1, store |-> [k \in DOMAIN st \ {username} |-> st[k]]]
    ELSE [affected |-> 0, store |-> st]

\* What the driver can fail with instead of running the statement.
QueryFaults == {"", "context canceled"}

-----------------------------------------------------------------------------
(* repository.go: UserRepository                                           *)

DbAttributes(operation) ==
  {<<"apm.db.operation", operation>>, <<"apm.db.table", "go_user_tbl">>}

\* Variant: time.Now() is read once per timestamp.
UserRepository_CreateUser_TwoClockReads(st, r, now, fault) ==
  LET q == IF fault # "" THEN [err |-> fault, rows |-> <<>>, store |-> st]
           ELSE SqlInsert(st, r.username, r.name, r.email, r.age, now, now + 2) IN
  [events |-> <<RepoCall("CreateUser"),
                SetAttributes("repo", DbAttributes("INSERT")), DbOp("INSERT")>>,
   ret |-> IF q.err # ""
             THEN [err |-> "error creating user: " \o q.err, users |-> <<>>]
             ELSE [err |-> "", users |-> q.rows],
   store |-> q.store]

\* Variant: the user is built from the request instead of the RETURNING row.
UserRepository_CreateUser_ReturnsRequest(st, r, now, fault) ==
  LET q == IF fault # "" THEN [err |-> fault, rows |-> <<>>, store |-> st]
           ELSE SqlInsert(st, r.username, r.name, r.email, r.age, now, now) IN
  [events |-> <<RepoCall("CreateUser"),
                SetAttributes("repo", DbAttributes("INSERT")), DbOp("INSERT")>>,
   ret |-> IF q.err # ""
             THEN [err |-> "error creating user: " \o q.err, users |-> <<>>]
             ELSE [err |-> "",
                   users |-> <<User(r.username, r.name, r.email, r.age, now, now)>>],
   store |-> q.store]

UserRepository_CreateUser(st, r, now, fault) ==
  LET q == IF fault # "" THEN [err |-> fault, rows |-> <<>>, store |-> st]
           ELSE SqlInsert(st, r.username, r.name, r.email, r.age, now, now) IN
  [events |-> <<RepoCall("CreateUser"),
                SetAttributes("repo", DbAttributes("INSERT")), DbOp("INSERT")>>,
   ret |-> IF q.err # ""
             THEN [err |-> "error creating user: " \o q.err, users |-> <<>>]
             ELSE [err |-> "", users |-> q.rows],
   store |-> q.store]

\* Variant: sql.ErrNoRows is wrapped like any other error.
UserRepository_GetUserByUsername_NoRowsWrapped(st, username, fault) ==
  LET rows == SqlSelectByUsername(st, username)
      err == IF fault # "" THEN fault ELSE IF rows = <<>> THEN ErrNoRows ELSE "" IN
  [events |-> <<RepoCall("GetUserByUsername"),
                SetAttributes("repo", DbAttributes("SELECT") \cup
                  {<<"apm.db.query.parameter.username", username>>}),
                DbOp("SELECT")>>,
   ret |-> IF err # ""
             THEN [err |-> "error getting user: " \o err, users |-> <<>>]
           ELSE [err |-> "", users |-> rows],
   store |-> st]

\* Variant: the repository sets its attributes on a span it starts under the
\* context it is given.
UserRepository_GetUserByUsername_OwnSpan(st, username, fault) ==
  LET rows == SqlSelectByUsername(st, username)
      err == IF fault # "" THEN fault ELSE IF rows = <<>> THEN ErrNoRows ELSE "" IN
  [events |-> <<RepoCall("GetUserByUsername"),
                Start("repo", "db:GetUserByUsername", "request"),
                SetAttributes("repo", DbAttributes("SELECT") \cup
                  {<<"apm.db.query.parameter.username", username>>}),
                DbOp("SELECT"), End("repo")>>,
   ret |-> IF err = ErrNoRows THEN [err |-> "user not found", users |-> <<>>]
           ELSE IF err # ""
             THEN [err |-> "error getting user: " \o err, users |-> <<>>]
           ELSE [err |-> "", users |-> rows],
   store |-> st]

UserRepository_GetUserByUsername(st, username, fault) ==
  LET rows == SqlSelectByUsername(st, username)
      err == IF fault # "" THEN fault ELSE IF rows = <<>> THEN ErrNoRows ELSE "" IN
  [events |-> <<RepoCall("GetUserByUsername"),
                SetAttributes("repo", DbAttributes("SELECT") \cup
                  {<<"apm.db.query.parameter.username", username>>}),
                DbOp("SELECT")>>,
   ret |-> IF err = ErrNoRows THEN [err |-> "user not found", users |-> <<>>]
           ELSE IF err # ""
             THEN [err |-> "error getting user: " \o err, users |-> <<>>]
           ELSE [err |-> "", users |-> rows],
   store |-> st]

\* Faults of the list: the query, the scan of a row, the iteration.
ListFaults == {"", "query", "scan", "rows"}

\* Variant: the repository starts a span of its own for the statement.
UserRepository_GetAllUsers_StartsSpan(st, fault) ==
  LET rows == SqlSelectAll(st) IN
  [events |-> <<RepoCall("GetAllUsers"), Start("repo", "db:GetAllUsers", "request"),
                SetAttributes("repo", DbAttributes("SELECT")), DbOp("SELECT"),
                End("repo")>>,
   ret |-> IF fault = "query"
             THEN [err |-> "error querying users: context canceled", users |-> <<>>]
           ELSE IF fault = "scan" /\ rows # <<>>
             THEN [err |-> "error scanning user: sql: Scan error", users |-> <<>>]
           ELSE IF fault = "rows"
             THEN [err |-> "error iterating users: context canceled", users |-> <<>>]
           ELSE [err |-> "", users |-> rows],
   store |-> st]

UserRepository_GetAllUsers(st, fault) ==
  LET rows == SqlSelectAll(st) IN
  [events |-> <<RepoCall("GetAllUsers"),
                SetAttributes("repo", DbAttributes("SELECT")), DbOp("SELECT")>>,
   ret |-> IF fault = "query"
             THEN [err |-> "error querying users: context canceled", users |-> <<>>]
           ELSE IF fault = "scan" /\ rows # <<>>
             THEN [err |-> "error scanning user: sql: Scan error", users |-> <<>>]
           ELSE IF fault = "rows"
             THEN [err |-> "error iterating users: context canceled", users |-> <<>>]
           ELSE [err |-> "", users |-> rows],
   store |-> st]

\* Variant: the repository records the error on the span of its context
\* before it returns it.
UserRepository_UpdateUser_RecordsError(st, username, r, now, fault) ==
  LET q == IF fault # "" THEN [err |-> fault, rows |-> <<>>, store |-> st]
           ELSE SqlUpdate(st, r.name, r.email, r.age, now, username)
      err == IF q.err # "" THEN q.err ELSE IF q.rows = <<>> THEN ErrNoRows ELSE ""
      e0 == <<RepoCall("UpdateUser"),
              SetAttributes("repo", DbAttributes("UPDATE") \cup
                {<<"apm.db.query.parameter.username", username>>}),
              DbOp("UPDATE")>> IN
  [events |-> IF err # "" /\ err # ErrNoRows
                THEN Append(e0, RecordError("repo", err)) ELSE e0,
   ret |-> IF err = ErrNoRows THEN [err |-> "user not found", users |-> <<>>]
           ELSE IF err # ""
             THEN [err |-> "error updating user: " \o err, users |-> <<>>]
           ELSE [err |-> "", users |-> q.rows],
   store |-> q.store]

UserRepository_UpdateUser(st, username, r, now, fault) ==
  LET q == IF fault # "" THEN [err |-> fault, rows |-> <<>>, store |-> st]
           ELSE SqlUpdate(st, r.name, r.email, r.age, now, username)
      err == IF q.err # "" THEN q.err ELSE IF q.rows = <<>> THEN ErrNoRows ELSE "" IN
  [events |-> <<RepoCall("UpdateUser"),
                SetAttributes("repo", DbAttributes("UPDATE") \cup
                  {<<"apm.db.query.parameter.username", username>>}),
                DbOp("UPDATE")>>,
   ret |-> IF err = ErrNoRows THEN [err |-> "user not found", users |-> <<>>]
           ELSE IF err # ""
             THEN [err |-> "error updating user: " \o err, users |-> <<>>]
           ELSE [err |-> "", users |-> q.rows],
   store |-> q.store]

\* Faults of the delete: ExecContext, then result.RowsAffected.
DeleteFaults == {"", "exec", "affected"}

\* Variant: the number of affected rows is not looked at.
UserRepository_DeleteUser_NoRowsCheck(st, username, fault) ==
  LET q == IF fault = "exec" THEN [affected |-> 0, store |-> st]
           ELSE SqlDelete(st, username) IN
  [events |-> <<RepoCall("DeleteUser"),
                SetAttributes("repo", DbAttributes("DELETE") \cup
                  {<<"apm.db.query.parameter.username", username>>}),
                DbOp("DELETE")>>,
   ret |-> IF fault = "exec"
             THEN [err |-> "error deleting user: context canceled", users |-> <<>>]
           ELSE IF fault = "affected"
             THEN [err |-> "error checking rows affected: no RowsAffected available",
                   users |-> <<>>]
           ELSE [err |-> "", users |-> <<>>],
   store |-> q.store]

UserRepository_DeleteUser(st, username, fault) ==
  LET q == IF fault = "exec" THEN [affected |-> 0, store |-> st]
           ELSE SqlDelete(st, username) IN
  [events |-> <<RepoCall("DeleteUser"),
                SetAttributes("repo", DbAttributes("DELETE") \cup
                  {<<"apm.db.query.parameter.username", username>>}),
                DbOp("DELETE")>>,
   ret |-> IF fault = "exec"
             THEN [err |-> "error deleting user: context canceled", users |-> <<>>]
           ELSE IF fault = "affected"
             THEN [err |-> "error checking rows affected: no RowsAffected available",
                   users |-> <<>>]
           ELSE IF q.affected = 0 THEN [err |-> "user not found", users |-> <<>>]
           ELSE [err |-> "", users |-> <<>>],
   store |-> q.store]

-----------------------------------------------------------------------------
(* otelapi handlers: each starts a span of its own and hands the context   *)
(* it got from tracer.Start to the repository                              *)

\* Variant: End is called at the end of the success path instead of being
\* deferred.
Deferred_SuccessOnly(out, layer) ==
  IF out.resp.status >= 400 THEN out
  ELSE [out EXCEPT !.events = Append(@, End(layer))]

\* defer span.End(): the function's span is ended as the function returns.
Deferred(out, layer) == [out EXCEPT !.events = Append(@, End(layer))]

otelapi_UserHandler_CreateUser(r) ==
  LET e0 == <<Invoke("CreateUser"), Start("handler", "CreateUser", "request"),
              RequestAttributes(r, "create_user")>>
      body == CreateUserRequest(r.body)
      e1 == Append(e0, SetAttributes("handler",
              {<<"apm.user.username", body.username>>,
               <<"apm.user.email", body.email>>})) IN
  IF r.method # "POST"
    THEN Deferred(HttpError(e0, "Method not allowed", 405), "handler")
  ELSE IF DecodeFails(r.body)
    THEN Deferred(HttpError(e0, "Invalid request body", 400), "handler")
  ELSE IF body.username = "" \/ body.name = "" \/ body.email = "" \/ body.age <= 0
    THEN Deferred(HttpError(e1, "Username, name, email, and age are required",
                            400), "handler")
  ELSE DelegateIn(e1, "CreateUser", "", body, "handler")

otelapi_UserHandler_GetUser(r) ==
  LET e0 == <<Invoke("GetUser"), Start("handler", "GetUser", "request"),
              RequestAttributes(r, "get_user")>>
      x == extractUsernameFromPath(r.path) IN
  IF r.method # "GET"
    THEN Deferred(HttpError(e0, "Method not allowed", 405), "handler")
  ELSE IF ~x.ok THEN Deferred(HttpError(e0, "Invalid username", 400), "handler")
  ELSE DelegateIn(
         Append(e0, SetAttributes("handler", {<<"apm.user.username", x.username>>})),
         "GetUserByUsername", x.username, NoBody, "handler")

otelapi_UserHandler_GetAllUsers(r) ==
  LET e0 == <<Invoke("GetAllUsers"), Start("handler", "GetAllUsers", "request"),
              RequestAttributes(r, "get_all_users")>> IN
  IF r.method # "GET"
    THEN Deferred(HttpError(e0, "Method not allowed", 405), "handler")
  ELSE DelegateIn(e0, "GetAllUsers", "", NoBody, "handler")

otelapi_UserHandler_UpdateUser(r) ==
  LET e0 == <<Invoke("UpdateUser"), Start("handler", "UpdateUser", "request"),
              RequestAttributes(r, "update_user")>>
      x == extractUsernameFromPath(r.path)
      e1 == Append(e0, SetAttributes("handler", {<<"apm.user.username", x.username>>}))
      body == UpdateUserRequest(r.body) IN
  IF r.method # "PUT"
    THEN Deferred(HttpError(e0, "Method not allowed", 405), "handler")
  ELSE IF ~x.ok THEN Deferred(HttpError(e0, "Invalid username", 400), "handler")
  ELSE IF DecodeFails(r.body)
    THEN Deferred(HttpError(e1, "Invalid request body", 400), "handler")
  ELSE IF body.name = "" \/ body.email = "" \/ body.age <= 0
    THEN Deferred(HttpError(e1, "Name, email, and age are required", 400),
                  "handler")
  ELSE DelegateIn(e1, "UpdateUser", x.username, body, "handler")

otelapi_UserHandler_DeleteUser(r) ==
  LET e0 == <<Invoke("DeleteUser"), Start("handler", "DeleteUser", "request"),
              RequestAttributes(r, "delete_user")>>
      x == extractUsernameFromPath(r.path) IN
  IF r.method # "DELETE"
    THEN Deferred(HttpError(e0, "Method not allowed", 405), "handler")
  ELSE IF ~x.ok THEN Deferred(HttpError(e0, "Invalid username", 400), "handler")
  ELSE DelegateIn(
         Append(e0, SetAttributes("handler", {<<"apm.user.username", x.username>>})),
         "DeleteUser", x.username, NoBody, "handler")

\* The methods of UserHandler.
otelapi_Handlers ==
  {"CreateUser", "GetUser", "GetAllUsers", "UpdateUser", "DeleteUser"}

otelapi_Handle(h, r) ==
  CASE h = "CreateUser" -> otelapi_UserHandler_CreateUser(r)
    [] h = "GetUser" -> otelapi_UserHandler_GetUser(r)
    [] h = "GetAllUsers" -> otelapi_UserHandler_GetAllUsers(r)
    [] h = "UpdateUser" -> otelapi_UserHandler_UpdateUser(r)
    [] h = "DeleteUser" -> otelapi_UserHandler_DeleteUser(r)

-----------------------------------------------------------------------------
(* otelapi repository: each method starts a span under the context it is   *)
(* given and runs its statement under the context of that span             *)

RepoCallIn(name, ctx) == Event("Repo", "repo", {}, name, 0, ctx)
DbOpIn(stmt, ctx) == Event("Db", "repo", {}, stmt, 0, ctx)

\* Variant: the span is started under the context of the request instead of
\* the context the method was given.
otelapi_Prologue_RequestContext(name, ctx, attrs, stmt) ==
  <<RepoCallIn(name, ctx), Start("repo", "db:" \o name, "request"),
    SetAttributes("repo", attrs), DbOpIn(stmt, "repo")>>

\* What every method does before its statement.
otelapi_Prologue(name, ctx, attrs, stmt) ==
  <<RepoCallIn(name, ctx), Start("repo", "db:" \o name, ctx),
    SetAttributes("repo", attrs), DbOpIn(stmt, "repo")>>

\* Variant: the repository returns the error without recording it.
otelapi_UserRepository_CreateUser_Unrecorded(st, ctx, r, now, fault) ==
  LET q == IF fault # "" THEN [err |-> fault, rows |-> <<>>, store |-> st]
           ELSE SqlInsert(st, r.username, r.name, r.email, r.age, now, now)
      e0 == otelapi_Prologue("CreateUser", ctx, DbAttributes("INSERT"), "INSERT") IN
  [events |-> Append(e0, End("repo")),
   ret |-> IF q.err # ""
             THEN [err |-> "error creating user: " \o q.err, users |-> <<>>]
             ELSE [err |-> "", users |-> q.rows],
   store |-> q.store]

otelapi_UserRepository_CreateUser(st, ctx, r, now, fault) ==
  LET q == IF fault # "" THEN [err |-> fault, rows |-> <<>>, store |-> st]
           ELSE SqlInsert(st, r.username, r.name, r.email, r.age, now, now)
      e0 == otelapi_Prologue("CreateUser", ctx, DbAttributes("INSERT"), "INSERT") IN
  [events |-> IF q.err # "" THEN e0 \o <<RecordError("repo", q.err), End("repo")>>
              ELSE Append(e0, End("repo")),
   ret |-> IF q.err # ""
             THEN [err |-> "error creating user: " \o q.err, users |-> <<>>]
             ELSE [err |-> "", users |-> q.rows],
   store |-> q.store]

otelapi_UserRepository_GetUserByUsername(st, ctx, username, fault) ==
  LET rows == SqlSelectByUsername(st, username)
      err == IF fault # "" THEN fault ELSE IF rows = <<>> THEN ErrNoRows ELSE ""
      e0 == otelapi_Prologue("GetUserByUsername", ctx,
              DbAttributes("SELECT") \cup
                {<<"apm.db.query.parameter.username", username>>}, "SELECT") IN
  [events |-> IF err # "" /\ err # ErrNoRows
                THEN e0 \o <<RecordError("repo", err), End("repo")>>
              ELSE Append(e0, End("repo")),
   ret |-> IF err = ErrNoRows THEN [err |-> "user not found", users |-> <<>>]
           ELSE IF err # ""
             THEN [err |-> "error getting user: " \o err, users |-> <<>>]
           ELSE [err |-> "", users |-> rows],
   store |-> st]

\* Variant: the error of the iteration is recorded by a deferred function
\* that runs after the deferred End.
otelapi_UserRepository_GetAllUsers_RecordsLate(st, ctx, fault) ==
  LET rows == SqlSelectAll(st)
      e0 == otelapi_Prologue("GetAllUsers", ctx, DbAttributes("SELECT"), "SELECT") IN
  [events |-> IF fault \in {"query", "rows"}
                THEN e0 \o <<End("repo"), RecordError("repo", "context canceled")>>
              ELSE Append(e0, End("repo")),
   ret |-> IF fault = "query"
             THEN [err |-> "error querying users: context canceled", users |-> <<>>]
           ELSE IF fault = "scan" /\ rows # <<>>
             THEN [err |-> "error scanning user: sql: Scan error", users |-> <<>>]
           ELSE IF fault = "rows"
             THEN [err |-> "error iterating users: context canceled", users |-> <<>>]
           ELSE [err |-> "", users |-> rows],
   store |-> st]

otelapi_UserRepository_GetAllUsers(st, ctx, fault) ==
  LET rows == SqlSelectAll(st)
      e0 == otelapi_Prologue("GetAllUsers", ctx, DbAttributes("SELECT"), "SELECT") IN
  [events |-> IF fault \in {"query", "rows"}
                THEN e0 \o <<RecordError("repo", "context canceled"), End("repo")>>
              ELSE Append(e0, End("repo")),
   ret |-> IF fault = "query"
             THEN [err |-> "error querying users: context canceled", users |-> <<>>]
           ELSE IF fault = "scan" /\ rows # <<>>
             THEN [err |-> "error scanning user: sql: Scan error", users |-> <<>>]
           ELSE IF fault = "rows"
             THEN [err |-> "error iterating users: context canceled", users |-> <<>>]
           ELSE [err |-> "", users |-> rows],
   store |-> st]

otelapi_UserRepository_UpdateUser(st, ctx, username, r, now, fault) ==
  LET q == IF fault # "" THEN [err |-> fault, rows |-> <<>>, store |-> st]
           ELSE SqlUpdate(st, r.name, r.email, r.age, now, username)
      err == IF q.err # "" THEN q.err ELSE IF q.rows = <<>> THEN ErrNoRows ELSE ""
      e0 == otelapi_Prologue("UpdateUser", ctx,
              DbAttributes("UPDATE") \cup
                {<<"apm.db.query.parameter.username", username>>}, "UPDATE") IN
  [events |-> IF err # "" /\ err # ErrNoRows
                THEN e0 \o <<RecordError("repo", err), End("repo")>>
              ELSE Append(e0, End("repo")),
   ret |-> IF err = ErrNoRows THEN [err |-> "user not found", users |-> <<>>]
           ELSE IF err # ""
             THEN [err |-> "error updating user: " \o err, users |-> <<>>]
           ELSE [err |-> "", users |-> q.rows],
   store |-> q.store]

\* Variant: a DELETE that affected no row is recorded like a failure.
otelapi_UserRepository_DeleteUser_RecordsAbsence(st, ctx, username, fault) ==
  LET q == IF fault = "exec" THEN [affected |-> 0, store |-> st]
           ELSE SqlDelete(st, username)
      e0 == otelapi_Prologue("DeleteUser", ctx,
              DbAttributes("DELETE") \cup
                {<<"apm.db.query.parameter.username", username>>}, "DELETE") IN
  [events |-> IF fault = "exec"
                THEN e0 \o <<RecordError("repo", "context canceled"), End("repo")>>
              ELSE IF fault = "affected"
                THEN e0 \o <<RecordError("repo", "no RowsAffected available"),
                             End("repo")>>
              ELSE IF q.affected = 0
                THEN e0 \o <<RecordError("repo", "user not found"), End("repo")>>
              ELSE Append(e0, End("repo")),
   ret |-> IF fault = "exec"
             THEN [err |-> "error deleting user: context canceled", users |-> <<>>]
           ELSE IF fault = "affected"
             THEN [err |-> "error checking rows affected: no RowsAffected available",
                   users |-> <<>>]
           ELSE IF q.affected = 0 THEN [err |-> "user not found", users |-> <<>>]
           ELSE [err |-> "", users |-> <<>>],
   store |-> q.store]

otelapi_UserRepository_DeleteUser(st, ctx, username, fault) ==
  LET q == IF fault = "exec" THEN [affected |-> 0, store |-> st]
           ELSE SqlDelete(st, username)
      e0 == otelapi_Prologue("DeleteUser", ctx,
              DbAttributes("DELETE") \cup
                {<<"apm.db.query.parameter.username", username>>}, "DELETE") IN
  [events |-> IF fault = "exec"
                THEN e0 \o <<RecordError("repo", "context canceled"), End("repo")>>
              ELSE IF fault = "affected"
                THEN e0 \o <<RecordError("repo", "no RowsAffected available"),
                             End("repo")>>
              ELSE Append(e0, End("repo")),
   ret |-> IF fault = "exec"
             THEN [err |-> "error deleting user: context canceled", users |-> <<>>]
           ELSE IF fault = "affected"
             THEN [err |-> "error checking rows affected: no RowsAffected available",
                   users |-> <<>>]
           ELSE IF q.affected = 0 THEN [err |-> "user not found", users |-> <<>>]
           ELSE [err |-> "", users |-> <<>>],
   store |-> q.store]

-----------------------------------------------------------------------------
(* handlers.go: each handler after the repository call returned           *)

\* Variant: the status is written before the error is recorded.
ServerError_WritesFirst(rt, text) ==
  [events |-> <<WriteHeader(500), RecordError("handler", rt.err)>>,
   resp |-> [status |-> 500, kind |-> "text", text |-> text, users |-> <<>>]]

ServerError(rt, text) ==
  [events |-> <<RecordError("handler", rt.err), WriteHeader(500)>>,
   resp |-> [status |-> 500, kind |-> "text", text |-> text, users |-> <<>>]]

\* Variant: the absence is recorded on the handler's span.
NotFound_RecordsError ==
  [events |-> <<RecordError("handler", "user not found"), WriteHeader(404)>>,
   resp |-> [status |-> 404, kind |-> "text", text |-> "User not found",
             users |-> <<>>]]

NotFound ==
  [events |-> <<WriteHeader(404)>>,
   resp |-> [status |-> 404, kind |-> "text", text |-> "User not found",
             users |-> <<>>]]

\* json.NewEncoder(w).Encode: the first write sends the status.
Encode(code, kind, users) ==
  [events |-> <<WriteHeader(code)>>,
   resp |-> [status |-> code, kind |-> kind, text |-> "", users |-> users]]

UserHandler_GetUser_Return(rt) ==
  IF rt.err # ""
    THEN IF rt.err = "user not found" THEN NotFound
         ELSE ServerError(rt, "Error getting user")
    ELSE Encode(200, "user", rt.users)

\* Variant: the handler marks the success on its span before it writes the
\* user.
UserHandler_CreateUser_Return_MarksSuccess(rt) ==
  IF rt.err # "" THEN ServerError(rt, "Error creating user")
  ELSE LET out == Encode(201, "user", rt.users) IN
       [out EXCEPT !.events =
          <<SetAttributes("handler", {<<"apm.success", "true">>})>> \o @]

UserHandler_CreateUser_Return(rt) ==
  IF rt.err # "" THEN ServerError(rt, "Error creating user")
  ELSE Encode(201, "user", rt.users)

UserHandler_GetAllUsers_Return(rt) ==
  IF rt.err # "" THEN ServerError(rt, "Error getting users")
  ELSE Encode(200, "users", rt.users)

\* Variant: the return after the 404 is missing, and the handler goes on as
\* for any other error.
UserHandler_UpdateUser_Return_FallsThrough(rt) ==
  IF rt.err # ""
    THEN IF rt.err = "user not found"
           THEN [events |-> NotFound.events \o
                            ServerError(rt, "Error updating user").events,
                 resp |-> NotFound.resp]
         ELSE ServerError(rt, "Error updating user")
    ELSE Encode(200, "user", rt.users)

UserHandler_UpdateUser_Return(rt) ==
  IF rt.err # ""
    THEN IF rt.err = "user not found" THEN NotFound
         ELSE ServerError(rt, "Error updating user")
    ELSE Encode(200, "user", rt.users)

UserHandler_DeleteUser_Return(rt) ==
  IF rt.err # ""
    THEN IF rt.err = "user not found" THEN NotFound
         ELSE ServerError(rt, "Error deleting user")
    ELSE [events |-> <<WriteHeader(204)>>,
          resp |-> [status |-> 204, kind |-> "", text |-> "", users |-> <<>>]]

-----------------------------------------------------------------------------
(* Serving a request                                                       *)

EmptyMap == [k \in {} |-> 0]

DummyUser ==
  User("johndoe", "John Doe", "john.doe@example.com", 30,
       DbTimestamp(2), DbTimestamp(2))

\* After InitSchema on a table that held the row of johndoe already
\* (insertDummyData inserts nothing into a table that is not empty).
InitProgram(p) ==
  /\ program = p
  /\ store = [k \in {"johndoe"} |-> DummyUser]
  /\ clock = 2
  /\ pc = [w \in Workers |-> "idle"]
  /\ req = [w \in Workers |-> NoRequest]
  /\ log = [w \in Workers |-> <<>>]
  /\ call = [w \in Workers |-> NoCall]
  /\ ret = [w \in Workers |-> NoReturn]
  /\ resp = [w \in Workers |-> NoResponse]
  /\ span = [w \in Workers |-> NoSpan]
  /\ spans = [w \in Workers |-> <<>>]
  /\ traces = 0
  /\ created = EmptyMap
  /\ deleted = {}

Init == InitProgram("oteltracer")

\* The request's body is read by the POST and PUT handlers only.
BodiesOf(method) == IF method \in {"POST", "PUT"} THEN Bodies ELSE {NoBody}

\* The mux calls the registered function; it runs up to the handler's
\* repository call or to the response.
Begin(w, r, out) ==
  LET t == TraceEvents([amb |-> NoSpan, app |-> <<>>, minted |-> 0],
                       out.events, AmbientTrace(w, r), traces) IN
  /\ traces + t.minted <= MaxTraces
  /\ span' = [span EXCEPT ![SpanFromContext(w)] = t.amb]
  /\ spans' = [spans EXCEPT ![SpanFromContext(w)] = t.app]
  /\ traces' = traces + t.minted
  /\ req' = [req EXCEPT ![w] = r]
  /\ log' = [log EXCEPT ![w] = out.events]
  /\ call' = [call EXCEPT ![w] = out.call]
  /\ ret' = [ret EXCEPT ![w] = NoReturn]
  /\ resp' = [resp EXCEPT ![w] = out.resp]
  /\ pc' = [pc EXCEPT ![w] = IF out.call.op = "" THEN "done" ELSE "store"]
  /\ UNCHANGED <<store, clock, program, created, deleted>>

ServeUsers(w) ==
  /\ program = "oteltracer"
  /\ pc[w] = "idle"
  /\ \E method \in Methods, path \in Paths, ambient \in BOOLEAN :
       /\ HasPrefix(path, UsersPrefix)
       /\ \E body \in BodiesOf(method) :
            LET r == [method |-> method, path |-> path, body |-> body,
                      ambient |-> ambient] IN
            Begin(w, r, UsersHandleFunc(r))

ServeHealth(w) ==
  /\ program = "oteltracer"
  /\ pc[w] = "idle"
  /\ \E method \in Methods, ambient \in BOOLEAN :
       LET r == [method |-> method, path |-> HealthPath, body |-> NoBody,
                 ambient |-> ambient] IN
       Begin(w, r, HealthHandleFunc(r))

\* The repository call returns and the handler writes the response.
Return(w, repo, fault, out) ==
  LET own == SpanFromContext(w)
      t == TraceEvents([amb |-> span[own], app |-> spans[own], minted |-> 0],
                       repo.events \o out.events, AmbientTrace(w, req[w]),
                       traces) IN
  /\ traces + t.minted <= MaxTraces
  /\ span' = [span EXCEPT ![own] = t.amb]
  /\ spans' = [spans EXCEPT ![own] = t.app]
  /\ traces' = traces + t.minted
  /\ store' = repo.store
  /\ log' = [log EXCEPT ![w] = log[w] \o repo.events \o out.events]
  /\ ret' = [ret EXCEPT ![w] =
               [err |-> repo.ret.err, users |-> repo.ret.users, fault |-> fault]]
  /\ resp' = [resp EXCEPT ![w] = out.resp]
  /\ pc' = [pc EXCEPT ![w] = "done"]
  /\ UNCHANGED <<req, call, program>>

Without(f, k) == [j \in DOMAIN f \ {k} |-> f[j]]
With(f, k, v) == [j \in DOMAIN f \cup {k} |-> IF j = k THEN v ELSE f[j]]

CreateUser(w) ==
  /\ program = "oteltracer"
  /\ pc[w] = "store" /\ call[w].op = "CreateUser"
  /\ \E now \in clock..MaxClock, fault \in QueryFaults :
       LET repo == UserRepository_CreateUser(store, call[w].body, now, fault) IN
       /\ Return(w, repo, fault, UserHandler_CreateUser_Return(repo.ret))
       /\ clock' = now
       /\ created' = IF repo.ret.err = ""
                       THEN With(created, call[w].body.username, repo.ret.users[1])
                       ELSE created
       /\ deleted' = IF repo.ret.err = ""
                       THEN deleted \ {call[w].body.username} ELSE deleted

GetUser(w) ==
  /\ program = "oteltracer"
  /\ pc[w] = "store" /\ call[w].op = "GetUserByUsername"
  /\ \E fault \in QueryFaults :
       LET repo == UserRepository_GetUserByUsername(store, call[w].username, fault) IN
       Return(w, repo, fault, UserHandler_GetUser_Return(repo.ret))
  /\ UNCHANGED <<clock, created, deleted>>

GetAllUsers(w) ==
  /\ program = "oteltracer"
  /\ pc[w] = "store" /\ call[w].op = "GetAllUsers"
  /\ \E fault \in ListFaults :
       LET repo == UserRepository_GetAllUsers(store, fault) IN
       Return(w, repo, fault, UserHandler_GetAllUsers_Return(repo.ret))
  /\ UNCHANGED <<clock, created, deleted>>

UpdateUser(w) ==
  /\ program = "oteltracer"
  /\ pc[w] = "store" /\ call[w].op = "UpdateUser"
  /\ \E now \in clock..MaxClock, fault \in QueryFaults :
       LET repo == UserRepository_UpdateUser(store, call[w].username,
                                             call[w].body, now, fault) IN
       /\ Return(w, repo, fault, UserHandler_UpdateUser_Return(repo.ret))
       /\ clock' = now
       /\ created' = IF repo.ret.err = "" THEN Without(created, call[w].username)
                     ELSE created
  /\ UNCHANGED deleted

DeleteUser(w) ==
  /\ program = "oteltracer"
  /\ pc[w] = "store" /\ call[w].op = "DeleteUser"
  /\ \E fault \in DeleteFaults :
       LET repo == UserRepository_DeleteUser(store, call[w].username, fault) IN
       /\ Return(w, repo, fault, UserHandler_DeleteUser_Return(repo.ret))
       /\ created' = IF repo.store # store THEN Without(created, call[w].username)
                     ELSE created
       /\ deleted' = IF repo.ret.err = "" THEN deleted \cup {call[w].username}
                     ELSE deleted
  /\ UNCHANGED clock

\* The handler has returned; the server is ready for the next request.
FinishRequest(w) ==
  /\ pc[w] = "done"
  /\ pc' = [pc EXCEPT ![w] = "idle"]
  /\ req' = [req EXCEPT ![w] = NoRequest]
  /\ log' = [log EXCEPT ![w] = <<>>]
  /\ call' = [call EXCEPT ![w] = NoCall]
  /\ ret' = [ret EXCEPT ![w] = NoReturn]
  /\ resp' = [resp EXCEPT ![w] = NoResponse]
  /\ span' = [span EXCEPT ![SpanFromContext(w)] = NoSpan]
  /\ spans' = [spans EXCEPT ![SpanFromContext(w)] = <<>>]
  /\ UNCHANGED <<store, clock, traces, program, created, deleted>>

Next ==
  \E w \in Serial :
    \/ ServeUsers(w)
    \/ ServeHealth(w)
    \/ CreateUser(w)
    \/ GetUser(w)
    \/ GetAllUsers(w)
    \/ UpdateUser(w)
    \/ DeleteUser(w)
    \/ FinishRequest(w)

Spec == Init /\ [][Next]_vars

-----------------------------------------------------------------------------
(* otelapi: the handlers after the repository call, and serving            *)

otelapi_UserHandler_CreateUser_Return(rt) ==
  Deferred(IF rt.err # "" THEN ServerError(rt, "Error creating user")
           ELSE Encode(201, "user", rt.users), "handler")

otelapi_UserHandler_GetUser_Return(rt) ==
  Deferred(IF rt.err # ""
             THEN IF rt.err = "user not found" THEN NotFound
                  ELSE ServerError(rt, "Error getting user")
           ELSE Encode(200, "user", rt.users), "handler")

otelapi_UserHandler_GetAllUsers_Return(rt) ==
  Deferred(IF rt.err # "" THEN ServerError(rt, "Error getting users")
           ELSE Encode(200, "users", rt.users), "handler")

otelapi_UserHandler_UpdateUser_Return(rt) ==
  Deferred(IF rt.err # ""
             THEN IF rt.err = "user not found" THEN NotFound
                  ELSE ServerError(rt, "Error updating user")
           ELSE Encode(200, "user", rt.users), "handler")

\* Variant: the handler ends its span as soon as the repository has returned.
otelapi_UserHandler_DeleteUser_Return_EndsFirst(rt) ==
  LET out == IF rt.err # ""
               THEN IF rt.err = "user not found" THEN NotFound
                    ELSE ServerError(rt, "Error deleting user")
             ELSE [events |-> <<WriteHeader(204)>>,
                   resp |-> [status |-> 204, kind |-> "", text |-> "",
                             users |-> <<>>]] IN
  [out EXCEPT !.events = <<End("handler")>> \o @]

otelapi_UserHandler_DeleteUser_Return(rt) ==
  Deferred(IF rt.err # ""
             THEN IF rt.err = "user not found" THEN NotFound
                  ELSE ServerError(rt, "Error deleting user")
           ELSE [events |-> <<WriteHeader(204)>>,
                 resp |-> [status |-> 204, kind |-> "", text |-> "",
                           users |-> <<>>]], "handler")

\* Bodies sent to the otelapi handlers.
TraceBodies ==
  { [BaseBody EXCEPT !.username = "janedoe", !.email = "jane.doe@example.com"],
    [BaseBody EXCEPT !.age = 0],
    BadBody }

\* A method of UserHandler is called with a request.
otelapi_Serve(w) ==
  /\ program = "otelapi"
  /\ pc[w] = "idle"
  /\ \E h \in otelapi_Handlers, method \in Methods, path \in Paths,
        ambient \in BOOLEAN :
       /\ HasPrefix(path, UsersPrefix)
       /\ \E body \in IF method \in {"POST", "PUT"} THEN TraceBodies ELSE {NoBody} :
            LET r == [method |-> method, path |-> path, body |-> body,
                      ambient |-> ambient] IN
            Begin(w, r, otelapi_Handle(h, r))

otelapi_CreateUser(w) ==
  /\ program = "otelapi"
  /\ pc[w] = "store" /\ call[w].op = "CreateUser"
  /\ \E now \in clock..MaxClock, fault \in QueryFaults :
       LET repo == otelapi_UserRepository_CreateUser(store, call[w].ctx,
                                                     call[w].body, now, fault) IN
       /\ Return(w, repo, fault, otelapi_UserHandler_CreateUser_Return(repo.ret))
       /\ clock' = now
       /\ created' = IF repo.ret.err = ""
                       THEN With(created, call[w].body.username, repo.ret.users[1])
                       ELSE created
       /\ deleted' = IF repo.ret.err = ""
                       THEN deleted \ {call[w].body.username} ELSE deleted

otelapi_GetUser(w) ==
  /\ program = "otelapi"
  /\ pc[w] = "store" /\ call[w].op = "GetUserByUsername"
  /\ \E fault \in QueryFaults :
       LET repo == otelapi_UserRepository_GetUserByUsername(
                     store, call[w].ctx, call[w].username, fault) IN
       Return(w, repo, fault, otelapi_UserHandler_GetUser_Return(repo.ret))
  /\ UNCHANGED <<clock, created, deleted>>

otelapi_GetAllUsers(w) ==
  /\ program = "otelapi"
  /\ pc[w] = "store" /\ call[w].op = "GetAllUsers"
  /\ \E fault \in ListFaults :
       LET repo == otelapi_UserRepository_GetAllUsers(store, call[w].ctx, fault) IN
       Return(w, repo, fault, otelapi_UserHandler_GetAllUsers_Return(repo.ret))
  /\ UNCHANGED <<clock, created, deleted>>

otelapi_UpdateUser(w) ==
  /\ program = "otelapi"
  /\ pc[w] = "store" /\ call[w].op = "UpdateUser"
  /\ \E now \in clock..MaxClock, fault \in QueryFaults :
       LET repo == otelapi_UserRepository_UpdateUser(
                     store, call[w].ctx, call[w].username, call[w].body, now,
                     fault) IN
       /\ Return(w, repo, fault, otelapi_UserHandler_UpdateUser_Return(repo.ret))
       /\ clock' = now
       /\ created' = IF repo.ret.err = "" THEN Without(created, call[w].username)
                     ELSE created
  /\ UNCHANGED deleted

otelapi_DeleteUser(w) ==
  /\ program = "otelapi"
  /\ pc[w] = "store" /\ call[w].op = "DeleteUser"
  /\ \E fault \in DeleteFaults :
       LET repo == otelapi_UserRepository_DeleteUser(store, call[w].ctx,
                                                     call[w].username, fault) IN
       /\ Return(w, repo, fault, otelapi_UserHandler_DeleteUser_Return(repo.ret))
       /\ created' = IF repo.store # store THEN Without(created, call[w].username)
                     ELSE created
       /\ deleted' = IF repo.ret.err = "" THEN deleted \cup {call[w].username}
                     ELSE deleted
  /\ UNCHANGED clock

otelapi_Next ==
  \E w \in Serial :
    \/ otelapi_Serve(w)
    \/ otelapi_CreateUser(w)
    \/ otelapi_GetUser(w)
    \/ otelapi_GetAllUsers(w)
    \/ otelapi_UpdateUser(w)
    \/ otelapi_DeleteUser(w)
    \/ FinishRequest(w)

-----------------------------------------------------------------------------
(* The demo: a handler that calls an external API under a span of its own, *)
(* and a handler that sets attributes of every type                        *)

ApiCallPath == <<"/", "api", "/", "call">>
TestAttributesPath == <<"/", "api", "/", "test-attributes">>

HttpDo(ctx) == Event("Http", "client", {}, "GET", 0, ctx)

\* callExternalAPI up to client.Do.
callExternalAPI(ctx) ==
  <<Start("client", "call_external_api", ctx),
    SetAttributes("client",
      { <<"apm.external.api.url", "https://jsonplaceholder.typicode.com/posts/1">>,
        <<"apm.external.api.method", "GET">>,
        <<"apm.custom.request.id", "req-12345">>,
        <<"apm.external.api.provider", "jsonplaceholder">>,
        <<"apm.data.type", "post">> }),
    HttpDo("client")>>

\* apiCallHandler up to the exchange with the external API.
apiCallHandler(r) ==
  [events |-> <<Invoke("apiCallHandler"),
                Start("handler", "handle_api_button_click", "request"),
                SetAttributes("handler",
                  { <<"user.action", "button_click">>,
                    <<"operation", "external_api_call">>,
                    <<"apm.custom.attribute", "demo_value">>,
                    <<"app.component", "api_handler">>,
                    <<"apm.business.operation", "fetch_post_data">> })>>
              \o callExternalAPI("handler"),
   call |-> [op |-> "callExternalAPI", username |-> "", body |-> NoBody,
             ctx |-> "handler"],
   resp |-> NoResponse]

\* What the exchange can fail at: client.Do, io.ReadAll, json.Unmarshal.
ExternalFaults == {"", "do", "read", "parse"}

ResponseAttributes ==
  { <<"apm.external.api.duration_ms", "120">>,
    <<"apm.external.api.status_code", "200">>,
    <<"apm.external.api.status", "200 OK">>,
    <<"apm.external.api.response.content_length", "292">> }

\* callExternalAPI from the return of client.Do.
callExternalAPI_Return(fault) ==
  LET read == <<SetAttributes("client", ResponseAttributes)>>
      sized == Append(read, SetAttributes("client",
                 {<<"apm.external.api.response.body_size_bytes", "292">>})) IN
  IF fault = "do"
    THEN [events |-> <<RecordError("client", "context deadline exceeded"),
                       SetAttributes("client",
                         {<<"apm.error.type", "http_request_failed">>}),
                       End("client")>>,
          ret |-> [err |-> "failed to call external API: context deadline exceeded",
                   users |-> <<>>]]
  ELSE IF fault = "read"
    THEN [events |-> read \o
                     <<RecordError("client", "unexpected EOF"),
                       SetAttributes("client",
                         {<<"error.type", "response_read_failed">>}),
                       End("client")>>,
          ret |-> [err |-> "failed to read response: unexpected EOF",
                   users |-> <<>>]]
  ELSE IF fault = "parse"
    THEN [events |-> sized \o
                     <<RecordError("client", "invalid character"),
                       SetAttributes("client",
                         {<<"apm.error.type", "json_parse_failed">>}),
                       End("client")>>,
          ret |-> [err |-> "failed to parse JSON: invalid character",
                   users |-> <<>>]]
  ELSE [events |-> sized \o
                   <<SetAttributes("client", {<<"apm.response.parsed", "true">>}),
                     End("client")>>,
        ret |-> [err |-> "", users |-> <<>>]]

\* apiCallHandler from the return of callExternalAPI.
apiCallHandler_Return(rt) ==
  Deferred(
    IF rt.err # ""
      THEN [events |-> <<SetAttributes("handler",
                           {<<"apm.error", "true">>,
                            <<"apm.error.message", rt.err>>}),
                         RecordError("handler", rt.err), WriteHeader(500)>>,
            resp |-> [status |-> 500, kind |-> "text",
                      text |-> "Error: " \o rt.err, users |-> <<>>]]
    ELSE [events |-> <<SetAttributes("handler",
                         {<<"sapm.uccess", "true">>,
                          <<"apm.result.type", "json">>}),
                       WriteHeader(200)>>,
          resp |-> [status |-> 200, kind |-> "json", text |-> "",
                    users |-> <<>>]], "handler")

\* The context tracer.Start returns is dropped: nothing is called under it.
testAttributesHandler(r) ==
  Deferred(
    [events |-> <<Invoke("testAttributesHandler"),
                  Start("handler", "test_all_attribute_types", "request"),
                  SetAttributes("handler",
                    { <<"apm.test.bool", "true">>,
                      <<"apm.test.int64", "9876543210">>,
                      <<"apm.test.float64", "123.456">>,
                      <<"apm.test.string", "hello world">>,
                      <<"apm.test.bool_slice", "[true false true]">>,
                      <<"apm.test.int64_slice", "[10 20 30]">>,
                      <<"apm.test.float64_slice", "[1.5 2.5 3.5]">>,
                      <<"apm.test.string_slice", "[apple banana cherry]">> }),
                  WriteHeader(200)>>,
     call |-> NoCall,
     resp |-> [status |-> 200, kind |-> "json", text |-> "", users |-> <<>>]],
    "handler")

\* The demo's handlers do not look at the method.
demo_ServeApiCall(w) ==
  /\ program = "demo"
  /\ pc[w] = "idle"
  /\ \E method \in Methods, ambient \in BOOLEAN :
       LET r == [method |-> method, path |-> ApiCallPath, body |-> NoBody,
                 ambient |-> ambient] IN
       Begin(w, r, apiCallHandler(r))

demo_ServeTestAttributes(w) ==
  /\ program = "demo"
  /\ pc[w] = "idle"
  /\ \E method \in Methods, ambient \in BOOLEAN :
       LET r == [method |-> method, path |-> TestAttributesPath, body |-> NoBody,
                 ambient |-> ambient] IN
       Begin(w, r, testAttributesHandler(r))

\* The exchange with the external API ends and both functions return.
demo_CallExternalAPI(w) ==
  /\ program = "demo"
  /\ pc[w] = "store" /\ call[w].op = "callExternalAPI"
  /\ \E fault \in ExternalFaults :
       LET x == callExternalAPI_Return(fault) IN
       Return(w, [events |-> x.events, ret |-> x.ret, store |-> store], fault,
              apiCallHandler_Return(x.ret))
  /\ UNCHANGED <<clock, created, deleted>>

demo_Next ==
  \E w \in Serial :
    \/ demo_ServeApiCall(w)
    \/ demo_ServeTestAttributes(w)
    \/ demo_CallExternalAPI(w)
    \/ FinishRequest(w)

-----------------------------------------------------------------------------
(* The program without spans: its repository takes no context              *)

untraced_UserHandler_CreateUser(r) ==
  LET e0 == <<Invoke("CreateUser")>>
      body == CreateUserRequest(r.body) IN
  IF r.method # "POST" THEN HttpError(e0, "Method not allowed", 405)
  ELSE IF DecodeFails(r.body) THEN HttpError(e0, "Invalid request body", 400)
  ELSE IF body.username = "" \/ body.name = "" \/ body.email = "" \/ body.age <= 0
    THEN HttpError(e0, "Username, name, email, and age are required", 400)
  ELSE DelegateIn(e0, "CreateUser", "", body, "")

untraced_UserHandler_GetUser(r) ==
  LET e0 == <<Invoke("GetUser")>>
      x == extractUsernameFromPath(r.path) IN
  IF r.method # "GET" THEN HttpError(e0, "Method not allowed", 405)
  ELSE IF ~x.ok THEN HttpError(e0, "Invalid username", 400)
  ELSE DelegateIn(e0, "GetUserByUsername", x.username, NoBody, "")

untraced_UserHandler_GetAllUsers(r) ==
  LET e0 == <<Invoke("GetAllUsers")>> IN
  IF r.method # "GET" THEN HttpError(e0, "Method not allowed", 405)
  ELSE DelegateIn(e0, "GetAllUsers", "", NoBody, "")

untraced_UserHandler_UpdateUser(r) ==
  LET e0 == <<Invoke("UpdateUser")>>
      x == extractUsernameFromPath(r.path)
      body == UpdateUserRequest(r.body) IN
  IF r.method # "PUT" THEN HttpError(e0, "Method not allowed", 405)
  ELSE IF ~x.ok THEN HttpError(e0, "Invalid username", 400)
  ELSE IF DecodeFails(r.body) THEN HttpError(e0, "Invalid request body", 400)
  ELSE IF body.name = "" \/ body.email = "" \/ body.age <= 0
    THEN HttpError(e0, "Name, email, and age are required", 400)
  ELSE DelegateIn(e0, "UpdateUser", x.username, body, "")

untraced_UserHandler_DeleteUser(r) ==
  LET e0 == <<Invoke("DeleteUser")>>
      x == extractUsernameFromPath(r.path) IN
  IF r.method # "DELETE" THEN HttpError(e0, "Method not allowed", 405)
  ELSE IF ~x.ok THEN HttpError(e0, "Invalid username", 400)
  ELSE DelegateIn(e0, "DeleteUser", x.username, NoBody, "")

untraced_Handle(h, r) ==
  CASE h = "CreateUser" -> untraced_UserHandler_CreateUser(r)
    [] h = "GetUser" -> untraced_UserHandler_GetUser(r)
    [] h = "GetAllUsers" -> untraced_UserHandler_GetAllUsers(r)
    [] h = "UpdateUser" -> untraced_UserHandler_UpdateUser(r)
    [] h = "DeleteUser" -> untraced_UserHandler_DeleteUser(r)

\* r.db.DB.QueryRow(query, ...): the statement runs under no context of the
\* request, so nothing that happens to the request's context reaches it.
untraced_UserRepository_CreateUser(st, r, now) ==
  LET q == SqlInsert(st, r.username, r.name, r.email, r.age, now, now) IN
  [events |-> <<RepoCallIn("CreateUser", ""), DbOpIn("INSERT", "")>>,
   ret |-> IF q.err # ""
             THEN [err |-> "error creating user: " \o q.err, users |-> <<>>]
             ELSE [err |-> "", users |-> q.rows],
   store |-> q.store]

untraced_UserHandler_CreateUser_Return(rt) ==
  IF rt.err # ""
    THEN [events |-> <<WriteHeader(500)>>,
          resp |-> [status |-> 500, kind |-> "text",
                    text |-> "Error creating user", users |-> <<>>]]
  ELSE Encode(201, "user", rt.users)

\* The other statements run under no context either. Of the faults only
\* those that do not come from the request's context reach them: the scan of
\* a row and result.RowsAffected.
untraced_UserRepository_GetUserByUsername(st, username) ==
  LET rows == SqlSelectByUsername(st, username) IN
  [events |-> <<RepoCallIn("GetUserByUsername", ""), DbOpIn("SELECT", "")>>,
   ret |-> IF rows = <<>> THEN [err |-> "user not found", users |-> <<>>]
           ELSE [err |-> "", users |-> rows],
   store |-> st]

untraced_UserRepository_GetAllUsers(st, fault) ==
  LET rows == SqlSelectAll(st) IN
  [events |-> <<RepoCallIn("GetAllUsers", ""), DbOpIn("SELECT", "")>>,
   ret |-> IF fault = "scan" /\ rows # <<>>
             THEN [err |-> "error scanning user: sql: Scan error", users |-> <<>>]
           ELSE [err |-> "", users |-> rows],
   store |-> st]

untraced_UserRepository_UpdateUser(st, username, r, now) ==
  LET q == SqlUpdate(st, r.name, r.email, r.age, now, username) IN
  [events |-> <<RepoCallIn("UpdateUser", ""), DbOpIn("UPDATE", "")>>,
   ret |-> IF q.err # ""
             THEN [err |-> "error updating user: " \o q.err, users |-> <<>>]
           ELSE IF q.rows = <<>> THEN [err |-> "user not found", users |-> <<>>]
           ELSE [err |-> "", users |-> q.rows],
   store |-> q.store]

untraced_UserRepository_DeleteUser(st, username, fault) ==
  LET q == SqlDelete(st, username) IN
  [events |-> <<RepoCallIn("DeleteUser", ""), DbOpIn("DELETE", "")>>,
   ret |-> IF fault = "affected"
             THEN [err |-> "error checking rows affected: no RowsAffected available",
                   users |-> <<>>]
           ELSE IF q.affected = 0 THEN [err |-> "user not found", users |-> <<>>]
           ELSE [err |-> "", users |-> <<>>],
   store |-> q.store]

\* log.Printf and http.Error: this program has no span to record on.
untraced_ServerError(text) ==
  [events |-> <<WriteHeader(500)>>,
   resp |-> [status |-> 500, kind |-> "text", text |-> text, users |-> <<>>]]

untraced_UserHandler_GetUser_Return(rt) ==
  IF rt.err # ""
    THEN IF rt.err = "user not found" THEN NotFound
         ELSE untraced_ServerError("Error getting user")
    ELSE Encode(200, "user", rt.users)

untraced_UserHandler_GetAllUsers_Return(rt) ==
  IF rt.err # "" THEN untraced_ServerError("Error getting users")
  ELSE Encode(200, "users", rt.users)

untraced_UserHandler_UpdateUser_Return(rt) ==
  IF rt.err # ""
    THEN IF rt.err = "user not found" THEN NotFound
         ELSE untraced_ServerError("Error updating user")
    ELSE Encode(200, "user", rt.users)

untraced_UserHandler_DeleteUser_Return(rt) ==
  IF rt.err # ""
    THEN IF rt.err = "user not found" THEN NotFound
         ELSE untraced_ServerError("Error deleting user")
    ELSE [events |-> <<WriteHeader(204)>>,
          resp |-> [status |-> 204, kind |-> "", text |-> "", users |-> <<>>]]

\* A method of UserHandler is called with a request.
untraced_Serve(w) ==
  /\ program = "untraced"
  /\ pc[w] = "idle"
  /\ \E h \in otelapi_Handlers, method \in Methods, path \in Paths,
        ambient \in BOOLEAN :
       /\ HasPrefix(path, UsersPrefix)
       /\ \E body \in IF method \in {"POST", "PUT"} THEN TraceBodies ELSE {NoBody} :
            LET r == [method |-> method, path |-> path, body |-> body,
                      ambient |-> ambient] IN
            Begin(w, r, untraced_Handle(h, r))

\* The request's context may be cancelled while the statement runs; the
\* fault is kept in ret and the statement is not touched by it.
untraced_CreateUser(w) ==
  /\ program = "untraced"
  /\ pc[w] = "store" /\ call[w].op = "CreateUser"
  /\ \E now \in clock..MaxClock, fault \in QueryFaults :
       LET repo == untraced_UserRepository_CreateUser(store, call[w].body, now) IN
       /\ Return(w, repo, fault, untraced_UserHandler_CreateUser_Return(repo.ret))
       /\ clock' = now
       /\ created' = IF repo.ret.err = ""
                       THEN With(created, call[w].body.username, repo.ret.users[1])
                       ELSE created
       /\ deleted' = IF repo.ret.err = ""
                       THEN deleted \ {call[w].body.username} ELSE deleted

untraced_GetUser(w) ==
  /\ program = "untraced"
  /\ pc[w] = "store" /\ call[w].op = "GetUserByUsername"
  /\ \E fault \in QueryFaults :
       LET repo == untraced_UserRepository_GetUserByUsername(store,
                                                            call[w].username) IN
       Return(w, repo, fault, untraced_UserHandler_GetUser_Return(repo.ret))
  /\ UNCHANGED <<clock, created, deleted>>

untraced_GetAllUsers(w) ==
  /\ program = "untraced"
  /\ pc[w] = "store" /\ call[w].op = "GetAllUsers"
  /\ \E fault \in ListFaults :
       LET repo == untraced_UserRepository_GetAllUsers(store, fault) IN
       Return(w, repo, fault, untraced_UserHandler_GetAllUsers_Return(repo.ret))
  /\ UNCHANGED <<clock, created, deleted>>

untraced_UpdateUser(w) ==
  /\ program = "untraced"
  /\ pc[w] = "store" /\ call[w].op = "UpdateUser"
  /\ \E now \in clock..MaxClock, fault \in QueryFaults :
       LET repo == untraced_UserRepository_UpdateUser(store, call[w].username,
                                                      call[w].body, now) IN
       /\ Return(w, repo, fault, untraced_UserHandler_UpdateUser_Return(repo.ret))
       /\ clock' = now
       /\ created' = IF repo.ret.err = "" THEN Without(created, call[w].username)
                     ELSE created
  /\ UNCHANGED deleted

untraced_DeleteUser(w) ==
  /\ program = "untraced"
  /\ pc[w] = "store" /\ call[w].op = "DeleteUser"
  /\ \E fault \in DeleteFaults :
       LET repo == untraced_UserRepository_DeleteUser(store, call[w].username,
                                                      fault) IN
       /\ Return(w, repo, fault, untraced_UserHandler_DeleteUser_Return(repo.ret))
       /\ created' = IF repo.store # store THEN Without(created, call[w].username)
                     ELSE created
       /\ deleted' = IF repo.ret.err = "" THEN deleted \cup {call[w].username}
                     ELSE deleted
  /\ UNCHANGED clock

untraced_Next ==
  \E w \in Serial :
    \/ untraced_Serve(w)
    \/ untraced_CreateUser(w)
    \/ untraced_GetUser(w)
    \/ untraced_GetAllUsers(w)
    \/ untraced_UpdateUser(w)
    \/ untraced_DeleteUser(w)
    \/ FinishRequest(w)

SpecUntraced == InitProgram("untraced") /\ [][untraced_Next]_vars

-----------------------------------------------------------------------------
(* The three programs of the user service                                  *)

ServicePrograms == {"oteltracer", "otelapi", "untraced"}

InitService == \E p \in ServicePrograms : InitProgram(p)

NextService == Next \/ otelapi_Next \/ untraced_Next

SpecService == InitService /\ [][NextService]_vars

-----------------------------------------------------------------------------
(* The three programs with spans                                           *)

Programs == {"oteltracer", "otelapi", "demo"}

InitAll == \E p \in Programs : InitProgram(p)

NextAll == Next \/ otelapi_Next \/ demo_Next

SpecAll == InitAll /\ [][NextAll]_vars

\* The two programs that start spans.
InitTraced == \E p \in {"otelapi", "demo"} : InitProgram(p)

NextTraced == otelapi_Next \/ demo_Next

SpecTraced == InitTraced /\ [][NextTraced]_vars

-----------------------------------------------------------------------------
(* Requests served at the same time: net/http runs each in a goroutine of  *)
(* its own                                                                 *)

\* The requests sent while another one is being served.
ConcRequests ==
  { [method |-> m, path |-> UsersPrefix \o <<u>>,
     body |-> IF m = "PUT" THEN [BaseBody EXCEPT !.name = "Jane Doe"] ELSE NoBody,
     ambient |-> a] :
      m \in {"GET", "PUT", "DELETE"}, u \in Usernames, a \in BOOLEAN }

ConcServeUsers(w) ==
  /\ program = "oteltracer"
  /\ pc[w] = "idle"
  /\ \E r \in ConcRequests : Begin(w, r, UsersHandleFunc(r))

ConcNext ==
  \E w \in Workers :
    \/ ConcServeUsers(w)
    \/ GetUser(w)
    \/ UpdateUser(w)
    \/ DeleteUser(w)
    \/ demo_ServeApiCall(w)
    \/ demo_ServeTestAttributes(w)
    \/ demo_CallExternalAPI(w)
    \/ FinishRequest(w)

ConcInit == \E p \in {"oteltracer", "demo"} : InitProgram(p)

SpecConc == ConcInit /\ [][ConcNext]_vars

-----------------------------------------------------------------------------
(* Vocabulary of the properties                                            *)

\* The calls of one kind a request has made so far.
Calls(w, ev) == SelectSeq(log[w], LAMBDA e : e.ev = ev)

UnderUsers(w) == pc[w] # "idle" /\ HasPrefix(req[w].path, UsersPrefix)

\* What follows "/users/" in the path.
Remainder(w) == SubSeq(req[w].path, Len(UsersPrefix) + 1, Len(req[w].path))

\* The remainder is not empty and starts with a separator: /users//...
EmptyIdentifier(w) == Remainder(w) # <<>> /\ Head(Remainder(w)) = "/"

NoStoreCall(w) ==
  /\ pc[w] # "store"
  /\ Calls(w, "Repo") = <<>>
  /\ Calls(w, "Db") = <<>>
  /\ call[w] = NoCall

Answered(w, code) == pc[w] = "done" /\ resp[w].status = code

-----------------------------------------------------------------------------
\* C1: a request under /users/ is routed by method and path shape: empty
\* remainder, GET to the list handler and POST to the create handler;
\* non-empty remainder, GET, PUT, DELETE to the get, update and delete
\* handlers; that handler and no other is invoked, once; any other pair
\* invokes no handler.
C1_Routing ==
  \A w \in Workers :
    UnderUsers(w) =>
      LET m == req[w].method
          empty == Remainder(w) = <<>> IN
      Calls(w, "Handler") =
        (IF empty /\ m = "GET" THEN <<Invoke("GetAllUsers")>>
         ELSE IF empty /\ m = "POST" THEN <<Invoke("CreateUser")>>
         ELSE IF ~empty /\ m = "GET" THEN <<Invoke("GetUser")>>
         ELSE IF ~empty /\ m = "PUT" THEN <<Invoke("UpdateUser")>>
         ELSE IF ~empty /\ m = "DELETE" THEN <<Invoke("DeleteUser")>>
         ELSE <<>>)

\* PUT /users/janedoe reached the update handler, and only it, and was
\* answered 404.
C1_Witness ==
  \E w \in Workers :
    /\ UnderUsers(w) /\ req[w].method = "PUT" /\ Remainder(w) = <<"janedoe">>
    /\ Calls(w, "Handler") = <<Invoke("UpdateUser")>>
    /\ Answered(w, 404)

\* C2 as claimed: a GET, PUT or DELETE whose path has an empty identifier
\* where one is required is answered 400 before any handler or repository
\* operation runs.
C2_Original ==
  \A w \in Workers :
    ( /\ UnderUsers(w)
      /\ \/ req[w].method \in {"PUT", "DELETE"} /\ Remainder(w) = <<>>
         \/ req[w].method \in {"GET", "PUT", "DELETE"} /\ EmptyIdentifier(w) )
    => /\ Answered(w, 400)
       /\ Calls(w, "Handler") = <<>>
       /\ NoStoreCall(w)

\* C2 amended: a GET, PUT or DELETE on /users//... (non-empty remainder,
\* empty identifier) is answered 400 by the item handler itself, after it
\* set the request attributes and before any repository call; a PUT or
\* DELETE on /users/ is answered 405 by the dispatcher; neither reaches the
\* repository or changes the table.
C2_EmptyIdentifier ==
  \A w \in Workers :
    UnderUsers(w) =>
      /\ ( req[w].method \in {"GET", "PUT", "DELETE"} /\ EmptyIdentifier(w) )
         => /\ Answered(w, 400)
            /\ Len(Calls(w, "Handler")) = 1
            /\ Len(Calls(w, "SetAttributes")) = 1
            /\ log[w][Len(log[w])] = WriteHeader(400)
            /\ NoStoreCall(w)
      /\ ( req[w].method \in {"PUT", "DELETE"} /\ Remainder(w) = <<>> )
         => /\ Answered(w, 405)
            /\ Calls(w, "Handler") = <<>>
            /\ NoStoreCall(w)

\* DELETE /users//johndoe was answered 400 by the delete handler.
C2_Witness ==
  \E w \in Workers :
    /\ UnderUsers(w) /\ req[w].method = "DELETE"
    /\ Remainder(w) = <<"/", "johndoe">>
    /\ Calls(w, "Handler") = <<Invoke("DeleteUser")>>
    /\ Answered(w, 400)
    /\ "johndoe" \in DOMAIN store

\* The methods the HTTP table lists for a path.
ListedMethods(path) ==
  IF path = HealthPath THEN {"GET"}
  ELSE IF path = UsersPrefix THEN {"GET", "POST"}
  ELSE {"GET", "PUT", "DELETE"}

\* C3 as claimed: on /users/, /users/{id} and /health a method the table
\* does not list is answered 405 without a repository call.
C3_Original ==
  \A w \in Workers :
    (pc[w] # "idle" /\ req[w].method \notin ListedMethods(req[w].path))
    => Answered(w, 405) /\ NoStoreCall(w)

\* C3 amended: on /users/ and /users/{id} a method the table does not list
\* is answered 405 without a handler or repository call; /health answers
\* 200 "OK" to every method, without a repository call.
C3_MethodNotAllowed ==
  \A w \in Workers :
    pc[w] # "idle" =>
      /\ ( UnderUsers(w) /\ req[w].method \notin ListedMethods(req[w].path) )
         => /\ Answered(w, 405)
            /\ resp[w].text = "Method not allowed"
            /\ Calls(w, "Handler") = <<>>
            /\ NoStoreCall(w)
      /\ req[w].path = HealthPath
         => /\ Answered(w, 200)
            /\ resp[w].text = "OK"
            /\ NoStoreCall(w)

\* A POST with a valid body on an item path was answered 405.
C3_Witness ==
  \E w \in Workers :
    /\ req[w].method = "POST" /\ req[w].path = UsersPrefix \o <<"johndoe">>
    /\ req[w].body \in ValidBodies
    /\ Answered(w, 405)

-----------------------------------------------------------------------------
\* The handler a request reached.
Reached(w, name) == pc[w] # "idle" /\ Calls(w, "Handler") = <<Invoke(name)>>

\* The body is not a JSON object the decoder accepts.
Undecodable(w) == req[w].body \notin (ValidBodies \cup InvalidBodies)

\* C4: in the create and update handlers a request that fails validation
\* (a required string field empty, age <= 0, or an undecodable body) is
\* answered 400, makes no repository call, and no RecordError is called on
\* any span.
C4_ValidationRejected ==
  \A w \in Workers :
    ( \/ /\ Reached(w, "CreateUser")
         /\ \/ Undecodable(w)
            \/ req[w].body.username = "" \/ req[w].body.name = ""
            \/ req[w].body.email = "" \/ req[w].body.age <= 0
      \/ /\ Reached(w, "UpdateUser")
         /\ \/ Undecodable(w)
            \/ req[w].body.name = "" \/ req[w].body.email = ""
            \/ req[w].body.age <= 0 )
    => /\ Answered(w, 400)
       /\ NoStoreCall(w)
       /\ Calls(w, "RecordError") = <<>>
       /\ span[w].errs = <<>>

\* PUT /users/johndoe with age 0, on a recording span, was answered 400.
C4_Witness ==
  \E w \in Workers :
    /\ Reached(w, "UpdateUser") /\ req[w].ambient
    /\ Remainder(w) = <<"johndoe">>
    /\ req[w].body = [BaseBody EXCEPT !.age = 0]
    /\ Answered(w, 400)
    /\ "johndoe" \in DOMAIN store

\* The repository call of worker w returns in this step.
Returns(w, op) == pc[w] = "store" /\ pc'[w] = "done" /\ call[w].op = op

ItemOps == {"GetUserByUsername", "UpdateUser", "DeleteUser"}

\* C5: for get, update and delete with a well-formed identifier that names
\* no row, the repository (when the driver ran the statement) returns the
\* outcome "user not found", which it returns in no other case, and the
\* handler answers 404; every other repository failure is answered 500.
C5_NotFoundDistinct ==
  [][ \A w \in Workers : \A op \in ItemOps :
        Returns(w, op) =>
          /\ ( call[w].username \notin DOMAIN store /\ ret'[w].fault = "" )
             => ret'[w].err = "user not found" /\ resp'[w].status = 404
          /\ call[w].username \in DOMAIN store => ret'[w].err # "user not found"
          /\ ret'[w].err \notin {"", "user not found"} => resp'[w].status = 500
          /\ resp'[w].status # 400 ]_vars

\* DELETE /users/janedoe on a table without janedoe was answered 404.
C5_Witness ==
  \E w \in Workers :
    /\ Reached(w, "DeleteUser") /\ call[w].username = "janedoe"
    /\ ret[w].err = "user not found" /\ ret[w].fault = ""
    /\ Answered(w, 404)
    /\ "janedoe" \notin DOMAIN store /\ "johndoe" \in DOMAIN store

\* C6: after a successful delete of an identity and no create of it since,
\* a get of that identity that the driver runs is answered 404, not 500.
C6_GetAfterDelete ==
  \A w \in Workers :
    ( /\ pc[w] = "done" /\ call[w].op = "GetUserByUsername"
      /\ call[w].username \in deleted /\ ret[w].fault = "" )
    => resp[w].status = 404 /\ ret[w].err = "user not found"

\* johndoe was deleted and a later GET /users/johndoe was answered 404.
C6_Witness ==
  \E w \in Workers :
    /\ Reached(w, "GetUser") /\ call[w].username = "johndoe"
    /\ "johndoe" \in deleted
    /\ Answered(w, 404)

\* C7: the entity a create answered with 201 has the submitted identity,
\* and its creation and modification timestamps are set and equal.
C7_CreateReturn ==
  \A w \in Workers :
    ( Reached(w, "CreateUser") /\ Answered(w, 201) )
    => /\ Len(resp[w].users) = 1
       /\ resp[w].users[1].username = req[w].body.username
       /\ resp[w].users[1].created_at = resp[w].users[1].updated_at
       /\ resp[w].users[1].created_at > 0

\* POST /users/ for janedoe was answered 201 at a clock reading the column
\* does not keep exactly.
C7_Witness ==
  \E w \in Workers :
    /\ Reached(w, "CreateUser") /\ Answered(w, 201)
    /\ req[w].body.username = "janedoe"
    /\ clock = 3

\* C8: a get of an identity created and neither updated nor deleted since
\* returns the entity the create returned, field by field.
C8_RoundTrip ==
  \A w \in Workers :
    ( /\ Reached(w, "GetUser") /\ pc[w] = "done"
      /\ call[w].username \in DOMAIN created /\ ret[w].fault = "" )
    => /\ resp[w].status = 200
       /\ resp[w].users = <<created[call[w].username]>>

\* janedoe was created at clock reading 3 and then fetched.
C8_Witness ==
  \E w \in Workers :
    /\ Reached(w, "GetUser") /\ Answered(w, 200)
    /\ call[w].username = "janedoe" /\ "janedoe" \in DOMAIN created
    /\ clock = 3

\* C9: a successful update of an existing identity sets name, email and
\* age to the submitted values and refreshes updated_at; the entity's
\* username and created_at, and every other row, are unchanged.
C9_UpdateFrame ==
  [][ \A w \in Workers :
        ( Returns(w, "UpdateUser") /\ ret'[w].err = "" ) =>
          LET k == call[w].username IN
          /\ k \in DOMAIN store
          /\ DOMAIN store' = DOMAIN store
          /\ \A j \in DOMAIN store \ {k} : store'[j] = store[j]
          /\ store'[k].username = store[k].username
          /\ store'[k].created_at = store[k].created_at
          /\ store'[k].name = req[w].body.name
          /\ store'[k].email = req[w].body.email
          /\ store'[k].age = req[w].body.age
          /\ store'[k].updated_at <= clock'
          /\ clock' - store'[k].updated_at < 2 ]_vars

\* johndoe was updated after its creation while janedoe is stored too.
C9_Witness ==
  \E w \in Workers :
    /\ Reached(w, "UpdateUser") /\ Answered(w, 200)
    /\ call[w].username = "johndoe"
    /\ DOMAIN store = {"johndoe", "janedoe"}
    /\ store["johndoe"].updated_at > store["johndoe"].created_at
    /\ store["johndoe"].name = "Jane Doe"

\* The request's body names an identity other than the one in its path.
IdentityMismatch(w) ==
  /\ Reached(w, "UpdateUser")
  /\ req[w].body \in ValidBodies
  /\ Len(Remainder(w)) = 1
  /\ req[w].body.username # Head(Remainder(w))

\* C10 as claimed: an update whose payload carries an identity different
\* from the path's is rejected.
C10_Original ==
  \A w \in Workers :
    ( IdentityMismatch(w) /\ pc[w] = "done" ) => resp[w].status # 200

\* C10 amended: the identity member of an update payload is dropped, not
\* rejected: the update goes to the repository for the identity of the
\* path and touches no other row; no update changes the username of a row
\* or the set of usernames.
C10_IdentityIgnored ==
  [][ \A w \in Workers :
        Returns(w, "UpdateUser") =>
          /\ call[w].username = Head(Remainder(w))
          /\ call[w].body.username = ""
          /\ DOMAIN store' = DOMAIN store
          /\ \A j \in DOMAIN store :
               /\ store'[j].username = j
               /\ j # Head(Remainder(w)) => store'[j] = store[j]
          /\ resp'[w].status = 200
             => resp'[w].users[1].username = Head(Remainder(w)) ]_vars

\* PUT /users/johndoe with username janedoe in the body was answered 200.
C10_Witness ==
  \E w \in Workers :
    /\ IdentityMismatch(w) /\ Answered(w, 200)
    /\ Remainder(w) = <<"johndoe">> /\ req[w].body.username = "janedoe"
    /\ DOMAIN store = {"johndoe", "janedoe"}

-----------------------------------------------------------------------------
\* The request is over: the handler has returned.
Served(w) == pc[w] = "done"

\* The spans the request started.
Started(w) == {spans[w][i] : i \in 1..Len(spans[w])}

\* No span of the request holds an error.
NothingRecorded(w) ==
  span[w].errs = <<>> /\ \A sp \in Started(w) : sp.errs = <<>>

-----------------------------------------------------------------------------
\* The calls of the repository.
StoreOps == ItemOps \cup {"CreateUser", "GetAllUsers"}

\* The repository call of the request failed, and not for absence.
StoreFailed(w) ==
  /\ Served(w) /\ call[w].op \in StoreOps
  /\ ret[w].err # "" /\ ret[w].err # "user not found"

\* Some span of the request holds the error.
Holds(w, err) ==
  \/ \E i \in 1..Len(span[w].errs) : span[w].errs[i] = err
  \/ \E sp \in Started(w) : \E i \in 1..Len(sp.errs) : sp.errs[i] = err

\* C12: in every handler, when the repository call fails for a reason other
\* than absence, RecordError is called with the error the call returned
\* before the status is written, the status is 500, and the error is on a
\* span of the request whenever the request has a span that records.
C12_StoreFailureRecorded ==
  \A w \in Workers :
    StoreFailed(w) =>
      /\ resp[w].status = 500
      /\ \E i, j \in 1..Len(log[w]) :
           /\ i < j
           /\ log[w][i].ev = "RecordError" /\ log[w][i].arg = ret[w].err
           /\ log[w][j] = WriteHeader(500)
      /\ \A j \in 1..Len(log[w]) :
           log[w][j].ev = "WriteHeader" => log[w][j] = WriteHeader(500)
      /\ (req[w].ambient \/ Started(w) # {}) => Holds(w, ret[w].err)

\* oteltracer: POST /users for a username that has a row failed on the
\* primary key; the error is on the agent's span and the answer is 500.
C12_Witness ==
  \E w \in Workers :
    /\ program = "oteltracer" /\ StoreFailed(w) /\ req[w].ambient
    /\ call[w].op = "CreateUser" /\ ret[w].fault = ""
    /\ ret[w].err = "error creating user: " \o ErrPrimaryKey
    /\ span[w].errs = <<ret[w].err>>
    /\ resp[w].status = 500

-----------------------------------------------------------------------------
\* The span handle the i-th call of a request is made on: the place in the
\* log of the tracer.Start that gave its function the handle, 0 for the
\* handle trace.SpanFromContext resolves from the request's context.
TargetOf(l, i) ==
  LET s == {j \in 1..(i - 1) : l[j].ev = "Start" /\ l[j].layer = l[i].layer} IN
  IF s = {} THEN 0 ELSE CHOOSE j \in s : \A k \in s : k <= j

\* C13: in the two variants and the demo, on every path of a request no
\* span handle receives RecordError twice: two RecordError calls of one
\* request are made on different handles, and no span holds two errors.
C13_RecordedOncePerSpan ==
  \A w \in Workers :
    /\ \A i, j \in 1..Len(log[w]) :
         ( i < j /\ log[w][i].ev = "RecordError" /\ log[w][j].ev = "RecordError" )
           => TargetOf(log[w], i) # TargetOf(log[w], j)
    /\ Len(span[w].errs) <= 1
    /\ \A sp \in Started(w) : Len(sp.errs) <= 1

\* demo: the exchange with the external API failed; callExternalAPI recorded
\* the error on its span and apiCallHandler recorded the wrapped error on its
\* own.
C13_Witness ==
  \E w \in Workers :
    /\ program = "demo" /\ Served(w) /\ resp[w].status = 500
    /\ Len(Calls(w, "RecordError")) = 2
    /\ Len(spans[w]) = 2
    /\ spans[w][1].errs = <<ret[w].err>>
    /\ Len(spans[w][2].errs) = 1 /\ spans[w][2].errs # spans[w][1].errs

-----------------------------------------------------------------------------
\* What the registered function does with the request up to the handler's
\* repository call or to the response.
Registered(r) ==
  IF HasPrefix(r.path, UsersPrefix) THEN UsersHandleFunc(r)
  ELSE HealthHandleFunc(r)

IsPrefix(s, t) == Len(s) <= Len(t) /\ SubSeq(t, 1, Len(s)) = s

\* C14: a request whose context holds no span gets the no-op handle: the
\* SetAttributes and RecordError calls of the handler and the repository are
\* all made and leave no attribute and no error on any span, and the request
\* makes the same calls, the same repository call and gets the same response
\* as the same request under a recording span.
C14_NoOpHandle ==
  \A w \in Workers :
    ( program = "oteltracer" /\ pc[w] # "idle" /\ ~req[w].ambient ) =>
      LET out == Registered([req[w] EXCEPT !.ambient = TRUE]) IN
      /\ span[w] = NoSpan /\ spans[w] = <<>>
      /\ IsPrefix(out.events, log[w])
      /\ out.call = call[w]
      /\ out.call = NoCall => out.resp = resp[w]
      /\ Served(w) /\ out.call # NoCall =>
           /\ Len(Calls(w, "SetAttributes")) >= 2
           /\ resp[w].status = 500 <=> Len(Calls(w, "RecordError")) = 1
           /\ resp[w].status = 500 <=> ret[w].err \notin {"", "user not found"}

\* GET /users/johndoe without a span in the context: the statement was
\* cancelled, RecordError was called on the no-op handle, nothing was kept.
C14_Witness ==
  \E w \in Workers :
    /\ program = "oteltracer" /\ Served(w) /\ ~req[w].ambient
    /\ call[w].op = "GetUserByUsername" /\ ret[w].fault = "context canceled"
    /\ Len(Calls(w, "SetAttributes")) = 3
    /\ Calls(w, "RecordError") = <<RecordError("handler", ret[w].err)>>
    /\ span[w] = NoSpan
    /\ resp[w].status = 500

-----------------------------------------------------------------------------
\* C15: in oteltracer no step of serving a request calls tracer.Start or
\* End: the spans started stay as they were (none), no trace id is
\* generated, and of the span the agent put in the request's context only
\* the attributes and the errors change, its trace staying the one the
\* agent gave it.
C15_EnrichInPlace ==
  [][ /\ spans' = spans
      /\ traces' = traces
      /\ \A w \in Workers :
           /\ Calls(w, "Start")' = <<>> /\ Calls(w, "End")' = <<>>
           /\ ( pc[w] = "store" /\ pc'[w] = "done" ) =>
                /\ AmbientTrace(w, req'[w]) = AmbientTrace(w, req[w])
                /\ span[w].attrs \subseteq span'[w].attrs
                /\ IsPrefix(span[w].errs, span'[w].errs) ]_vars

\* POST /users under the agent's span failed on the primary key: the span
\* holds the attributes of the handler and of the repository and the error,
\* and no span was started.
C15_Witness ==
  \E w \in Workers :
    /\ program = "oteltracer" /\ Served(w) /\ req[w].ambient
    /\ call[w].op = "CreateUser" /\ resp[w].status = 500
    /\ <<"apm.operation", "create_user">> \in span[w].attrs
    /\ <<"apm.db.operation", "INSERT">> \in span[w].attrs
    /\ Len(span[w].errs) = 1
    /\ spans[w] = <<>> /\ traces = 0

-----------------------------------------------------------------------------
-----------------------------------------------------------------------------
\* C17: every span a handler, the repository or the demo started is ended
\* once when its function returns, on every path: it is open while the
\* function runs, End is called on it once when the function returns,
\* whatever the status written, and it is never ended twice. Every request
\* of these programs starts a span.
C17_EndedOnce ==
  \A w \in Workers :
    /\ \A sp \in Started(w) :
         /\ sp.ends <= 1
         /\ Served(w) => sp.ends = 1
         /\ pc[w] = "store" => sp.ends = 0
    /\ Len(Calls(w, "End")) <= Len(Calls(w, "Start"))
    /\ Served(w) =>
         /\ Len(spans[w]) >= 1
         /\ Len(Calls(w, "End")) = Len(spans[w])
         /\ log[w][Len(log[w])] = End("handler")
         /\ \E i \in 1..Len(log[w]) : log[w][i] = WriteHeader(resp[w].status)

\* otelapi: PUT /users/{username} returned early with 400 and its span has
\* ended.
C17_Witness ==
  \E w \in Workers :
    /\ program = "otelapi" /\ Served(w)
    /\ Calls(w, "Handler") = <<Invoke("UpdateUser")>>
    /\ resp[w].status = 400 /\ call[w] = NoCall
    /\ Len(spans[w]) = 1 /\ spans[w][1].ends = 1

-----------------------------------------------------------------------------
\* The request's context was cancelled while its repository call was
\* outstanding.
Cancelled(w) ==
  /\ call[w].op \in StoreOps
  /\ ret[w].fault \in {"context canceled", "query", "rows", "exec"}

\* C18: when the request's context is cancelled while the repository call
\* is outstanding, the call returns an error, the repository has run one
\* statement and no second one, RecordError is called for the request, and
\* the handler does not answer with a success status.
C18_CancelledCall ==
  \A w \in Workers :
    ( Served(w) /\ Cancelled(w) ) =>
      /\ ret[w].err # ""
      /\ Len(Calls(w, "Db")) = 1
      /\ Calls(w, "RecordError") # <<>>
      /\ resp[w].status \notin {200, 201, 204}

-----------------------------------------------------------------------------
\* What the spans of a request hold comes from the calls of that request:
\* every attribute was set by a SetAttributes call in its log and every error
\* by a RecordError call in its log, the spans it started are the ones its
\* log started and ended, the method and the url on the span of its context
\* are its own, and a goroutine that serves no request holds no span.
OwnSpans(w) ==
  LET held == {span[w]} \cup Started(w) IN
  /\ pc[w] = "idle" => span[w] = NoSpan /\ spans[w] = <<>>
  /\ \A sp \in held :
       /\ \A a \in sp.attrs :
            \E i \in 1..Len(log[w]) :
              log[w][i].ev = "SetAttributes" /\ a \in log[w][i].attrs
       /\ \A k \in 1..Len(sp.errs) :
            \E i \in 1..Len(log[w]) :
              log[w][i].ev = "RecordError" /\ log[w][i].arg = sp.errs[k]
  /\ Len(spans[w]) = Len(Calls(w, "Start"))
  /\ \A i \in 1..Len(spans[w]) : spans[w][i].ends <= Len(Calls(w, "End"))
  /\ ( program = "oteltracer" /\ pc[w] # "idle" /\ req[w].ambient ) =>
       /\ <<"apm.http.method", req[w].method>> \in span[w].attrs
       /\ <<"apm.http.url", Str(req[w].path)>> \in span[w].attrs
  /\ ( program = "demo" /\ pc[w] # "idle" ) =>
       /\ spans[w] # <<>>
       /\ req[w].ambient => spans[w][1].trace = AmbientTrace(w, req[w])
       /\ \A v \in Workers :
            ( v # w /\ spans[v] # <<>> ) => spans[v][1].trace # spans[w][1].trace

\* C19: with requests served at the same time in any interleaving, a step of
\* one request leaves the request, the calls, the response and the spans of
\* every other request as they were, what the spans of a request hold comes
\* from that request's calls alone, and besides the store, the clock and the
\* tracer's ids nothing shared is written.
C19_Isolation ==
  [][ /\ program' = program
      /\ \A v \in Workers :
           pc'[v] = pc[v] =>
             /\ req'[v] = req[v] /\ log'[v] = log[v] /\ call'[v] = call[v]
             /\ ret'[v] = ret[v] /\ resp'[v] = resp[v]
             /\ span'[v] = span[v] /\ spans'[v] = spans[v]
      /\ \A w \in Workers : OwnSpans(w)' ]_vars

\* PUT /users/johndoe is blocked in its statement while GET /users/janedoe
\* has been answered, each under a span of the agent with its own
\* attributes.
C19_Witness ==
  /\ program = "oteltracer"
  /\ pc[1] = "store" /\ call[1].op = "UpdateUser" /\ req[1].ambient
  /\ Served(2) /\ call[2].op = "GetUserByUsername" /\ req[2].ambient
  /\ <<"apm.user.username", "johndoe">> \in span[1].attrs
  /\ <<"apm.user.username", "janedoe">> \in span[2].attrs
  /\ <<"apm.db.operation", "SELECT">> \in span[2].attrs
  /\ <<"apm.db.operation", "SELECT">> \notin span[1].attrs

-----------------------------------------------------------------------------
\* The RecordError calls a layer made for the request.
RecordedBy(w, layer) ==
  SelectSeq(log[w], LAMBDA e : e.ev = "RecordError" /\ e.layer = layer)

\* What fmt.Errorf puts before the error of the driver.
Wraps ==
  { "error creating user: ", "error getting user: ", "error querying users: ",
    "error iterating users: ", "error updating user: ", "error deleting user: ",
    "error checking rows affected: " }

-----------------------------------------------------------------------------
\* The request was handed to one of the five methods of UserHandler.
HandlerInvoked(w) ==
  \E i \in 1..Len(log[w]) :
    log[w][i].ev = "Handler" /\ log[w][i].arg \in otelapi_Handlers

\* The span the handler's variable span holds: the one it started, else the
\* one of the request's context.
HandlerSpan(w) ==
  LET i == Held(spans[w], "handler") IN
  IF i = 0 THEN span[w] ELSE spans[w][i]

\* The handler's span keeps what is set on it.
Recording(w) == req[w].ambient \/ Held(spans[w], "handler") # 0

ShapeNames == {"apm.http.method", "apm.http.url", "apm.operation"}

\* C21: in oteltracer and in otelapi, the first span call of a handler after
\* it has its span is SetAttributes with the method, the url and the
\* operation of the request and nothing else; no status is written and no
\* repository call is made before it. From then on, whatever the handler
\* answers (400, 404, 405 and 500 included), the handler's span holds the
\* three attributes whenever it records.
C21_RequestShapeFirst ==
  \A w \in Workers :
    ( program \in {"oteltracer", "otelapi"} /\ HandlerInvoked(w) ) =>
      \E i \in 1..Len(log[w]) :
        LET e == log[w][i] IN
        /\ e.ev = "SetAttributes" /\ e.layer = "handler"
        /\ \A j \in 1..(i - 1) : log[w][j].ev \in {"Handler", "Start"}
        /\ {a[1] : a \in e.attrs} = ShapeNames
        /\ <<"apm.http.method", req[w].method>> \in e.attrs
        /\ <<"apm.http.url", Str(req[w].path)>> \in e.attrs
        /\ Recording(w) => e.attrs \subseteq HandlerSpan(w).attrs
        /\ ( Served(w) /\ Recording(w) ) =>
             {a \in HandlerSpan(w).attrs : a[1] \in ShapeNames} = e.attrs

\* otelapi: GetUser was called with a POST request that carries no span; it
\* answered 405 and the span it started holds the three attributes and no
\* other.
C21_Witness ==
  \E w \in Workers :
    /\ program = "otelapi" /\ Served(w) /\ ~req[w].ambient
    /\ Calls(w, "Handler") = <<Invoke("GetUser")>>
    /\ req[w].method = "POST" /\ resp[w].status = 405
    /\ spans[w][1].attrs =
         { <<"apm.http.method", "POST">>, <<"apm.http.url", Str(req[w].path)>>,
           <<"apm.operation", "get_user">> }

-----------------------------------------------------------------------------
\* The call the handler blocked in returned without an error.
Succeeded(w) == Served(w) /\ call[w] # NoCall /\ ret[w].err = ""

\* The calls the handler made after the function it called returned: what
\* follows the last call of the repository or of callExternalAPI in the log.
AfterReturn(w) ==
  LET s == {i \in 1..Len(log[w]) : log[w][i].layer \in {"repo", "client"}}
      k == IF s = {} THEN 0 ELSE CHOOSE i \in s : \A j \in s : j <= i IN
  SubSeq(log[w], k + 1, Len(log[w]))

SuccessStatus(op) ==
  CASE op = "CreateUser" -> 201 [] op = "DeleteUser" -> 204 [] OTHER -> 200

-----------------------------------------------------------------------------
\* The functions a handler calls: the repository, callExternalAPI.
Nested == {"repo", "client"}

\* C23: in otelapi and the demo, a handler hands the context tracer.Start
\* returned to it to the function it calls, that function starts its span
\* under that context, and runs its statement or its exchange under the
\* context its own tracer.Start returned, while its span is open. The span
\* of the called function is therefore the child of the handler's span, in
\* the handler's trace.
C23_CarrierChain ==
  \A w \in Workers :
    /\ pc[w] = "store" => call[w].ctx = "handler" /\ Held(spans[w], "handler") # 0
    /\ Len(Calls(w, "Start")) = Len(spans[w])
    /\ \A i \in 1..Len(log[w]) :
         LET e == log[w][i] IN
         /\ e.ev = "Repo" => e.ctx = "handler"
         /\ ( e.ev = "Start" /\ e.layer \in Nested ) =>
              /\ e.ctx = "handler"
              /\ \E j \in 1..(i - 1) :
                   log[w][j].ev = "Start" /\ log[w][j].layer = "handler"
              /\ \A j \in 1..(i - 1) : log[w][j] # End("handler")
         /\ e.ev \in {"Db", "Http"} =>
              /\ e.ctx = e.layer /\ e.layer \in Nested
              /\ \E j \in 1..(i - 1) :
                   log[w][j].ev = "Start" /\ log[w][j].layer = e.layer
              /\ \A j \in 1..(i - 1) : log[w][j] # End(e.layer)
    /\ \A i \in 1..Len(spans[w]) :
         spans[w][i].layer \in Nested =>
           LET h == Held(spans[w], "handler") IN
           /\ h # 0 /\ h < i
           /\ spans[w][i].parent = spans[w][h].name
           /\ spans[w][i].trace = spans[w][h].trace

\* otelapi: GET for johndoe under a span of the agent: the handler's span is
\* the child of the agent's, the repository's span the child of the
\* handler's, all in the agent's trace, and the SELECT ran under the context
\* of the repository's span.
C23_Witness ==
  \E w \in Workers :
    /\ program = "otelapi" /\ Served(w) /\ req[w].ambient
    /\ call[w].op = "GetUserByUsername" /\ resp[w].status = 200
    /\ Len(spans[w]) = 2
    /\ spans[w][1].name = "GetUser" /\ spans[w][1].parent = "ambient"
    /\ spans[w][2].name = "db:GetUserByUsername" /\ spans[w][2].parent = "GetUser"
    /\ spans[w][1].trace = AmbientTrace(w, req[w])
    /\ spans[w][2].trace = AmbientTrace(w, req[w])
    /\ Calls(w, "Db") = <<DbOpIn("SELECT", "repo")>>

-----------------------------------------------------------------------------
\* The attributes the SetAttributes calls of a layer leave, a later value
\* the layer sets for a name replacing the earlier one.
AttributesOf(w, layer) ==
  { a \in UNION { log[w][i].attrs : i \in 1..Len(log[w]) } :
      \E i \in 1..Len(log[w]) :
        /\ log[w][i].ev = "SetAttributes" /\ log[w][i].layer = layer
        /\ a \in log[w][i].attrs
        /\ \A j \in (i + 1)..Len(log[w]) :
             log[w][j].layer = layer =>
               \A b \in log[w][j].attrs : b[1] # a[1] }

-----------------------------------------------------------------------------
\* The places in the log of a request where a layer calls End.
EndsOf(w, layer) == {k \in 1..Len(log[w]) : log[w][k] = End(layer)}

\* C25: in otelapi and the demo, of two spans a request started the later
\* one is ended first: when the span of a layer is ended, every span the
\* request started after it has been ended before. The handler's span is
\* ended after the status is written and is the last call of the request;
\* the span of the function the handler called is ended before the status
\* is written.
C25_EndOrder ==
  \A w \in Workers :
    /\ \A i, j \in 1..Len(log[w]) :
         ( i < j /\ log[w][i].ev = "Start" /\ log[w][j].ev = "Start" ) =>
           /\ log[w][i].layer # log[w][j].layer
           /\ \A k \in EndsOf(w, log[w][i].layer) :
                \E m \in EndsOf(w, log[w][j].layer) : m < k
    /\ \A k \in EndsOf(w, "handler") :
         /\ k = Len(log[w])
         /\ \E m \in 1..(k - 1) : log[w][m].ev = "WriteHeader"
    /\ \A l \in Nested : \A k \in EndsOf(w, l) :
         \A m \in 1..(k - 1) : log[w][m].ev # "WriteHeader"
    /\ Served(w) =>
         /\ EndsOf(w, "handler") # {}
         /\ call[w] # NoCall => \E l \in Nested : EndsOf(w, l) # {}

\* otelapi: DELETE for johndoe: the repository's span ended, then 204 was
\* written, then the handler's span ended.
C25_Witness ==
  \E w \in Workers :
    /\ program = "otelapi" /\ Served(w) /\ call[w].op = "DeleteUser"
    /\ resp[w].status = 204
    /\ SubSeq(log[w], Len(log[w]) - 2, Len(log[w])) =
         <<End("repo"), WriteHeader(204), End("handler")>>
    /\ spans[w][1].ends = 1 /\ spans[w][2].ends = 1

-----------------------------------------------------------------------------
\* C26: in otelapi and the demo, once a function has called End on its span
\* it makes no SetAttributes and no RecordError call on it: no such call
\* follows the End of its layer in the log, no span has received a call
\* after its end, and what a span held when it ended is what it holds.
C26_NoCallAfterEnd ==
  \A w \in Workers :
    /\ \A k \in 1..Len(log[w]) :
         log[w][k].ev = "End" =>
           \A m \in (k + 1)..Len(log[w]) :
             log[w][m].layer = log[w][k].layer =>
               log[w][m].ev \notin {"SetAttributes", "RecordError", "End"}
    /\ \A sp \in Started(w) : sp.late = 0
    /\ \A i \in 1..Len(spans[w]) :
         spans[w][i].ends = 1 =>
           /\ spans[w][i].attrs = AttributesOf(w, spans[w][i].layer)
           /\ Len(spans[w][i].errs) = Len(RecordedBy(w, spans[w][i].layer))

\* demo: the answer of the external API could not be parsed;
\* callExternalAPI recorded the error and set the error type on its span
\* before it ended it, and the handler did the same on its own.
C26_Witness ==
  \E w \in Workers :
    /\ program = "demo" /\ Served(w) /\ ret[w].fault = "parse"
    /\ Len(spans[w]) = 2
    /\ spans[w][2].ends = 1 /\ spans[w][2].late = 0
    /\ <<"apm.error.type", "json_parse_failed">> \in spans[w][2].attrs
    /\ Len(spans[w][2].errs) = 1
    /\ spans[w][1].ends = 1 /\ spans[w][1].late = 0
    /\ Len(spans[w][1].errs) = 1

-----------------------------------------------------------------------------
\* C27: in the three programs of the user service, a request gets one
\* status: none is written while the handler is in its repository call, one
\* has been written when the handler has returned, and after a status is
\* written the request makes no repository call, runs no statement and
\* writes no other status. An error status comes with a plain-text message
\* and no user. A handler makes at most one repository call, and it writes
\* 200, 201 or 204 only after that call has returned without an error.
C27_OneStatus ==
  \A w \in Workers :
    pc[w] # "idle" =>
      /\ Len(Calls(w, "WriteHeader")) <= 1
      /\ Len(Calls(w, "Repo")) <= 1
      /\ pc[w] = "store" => Calls(w, "WriteHeader") = <<>> /\ resp[w] = NoResponse
      /\ Served(w) => Calls(w, "WriteHeader") = <<WriteHeader(resp[w].status)>>
      /\ \A i \in 1..Len(log[w]) :
           log[w][i].ev = "WriteHeader" =>
             \A j \in (i + 1)..Len(log[w]) :
               log[w][j].ev \notin {"Repo", "Db", "WriteHeader", "Handler"}
      /\ ( Served(w) /\ resp[w].status \in {400, 404, 405, 500} ) =>
           resp[w].kind = "text" /\ resp[w].users = <<>>
      /\ ( Served(w) /\ HandlerInvoked(w) /\ resp[w].status \in {400, 405} ) =>
           NoStoreCall(w)
      /\ ( Served(w) /\ HandlerInvoked(w) /\ resp[w].status \in {200, 201, 204} ) =>
           /\ Len(Calls(w, "Repo")) = 1 /\ Len(Calls(w, "Db")) = 1
           /\ ret[w].err = ""
           /\ \E i, j \in 1..Len(log[w]) :
                i < j /\ log[w][i].ev = "Db" /\ log[w][j].ev = "WriteHeader"

\* oteltracer: PUT for janedoe, who has no row: one repository call, then
\* 404 and nothing after it.
C27_Witness ==
  \E w \in Workers :
    /\ program = "oteltracer" /\ Served(w) /\ call[w].op = "UpdateUser"
    /\ ret[w].err = "user not found"
    /\ Calls(w, "WriteHeader") = <<WriteHeader(404)>>
    /\ log[w][Len(log[w])] = WriteHeader(404)
    /\ Len(Calls(w, "Repo")) = 1
    /\ resp[w].status = 404 /\ resp[w].text = "User not found"

-----------------------------------------------------------------------------
\* The repository call of a request returns in this step.
Completes(w) == pc[w] = "store" /\ pc'[w] = "done"

\* The user to create has the username or the email of a row.
Conflicts(w) ==
  /\ call[w].op = "CreateUser"
  /\ \/ call[w].body.username \in DOMAIN store
     \/ \E k \in DOMAIN store : store[k].email = call[w].body.email

\* C28: in the three programs of the user service, a step that answers a
\* request with 400, 404 or 405 leaves the table as it was, rows and fields;
\* so does every step in which no repository call returns. A CreateUser for
\* a username or an email that a row has already leaves the table as it
\* was, returns an error and is answered 500, every time.
C28_RejectedFrame ==
  [][ /\ ( \A w \in Workers : ~Completes(w) ) => store' = store
      /\ \A w \in Workers :
           /\ ( pc[w] # "done" /\ pc'[w] = "done"
                /\ resp'[w].status \in {400, 404, 405} ) => store' = store
           /\ ( Completes(w) /\ Conflicts(w) ) =>
                /\ store' = store
                /\ ret'[w].err # "" /\ ret'[w].users = <<>>
                /\ resp'[w].status = 500 ]_vars

\* oteltracer: POST /users for janedoe with the email of johndoe was
\* rejected on the unique email: 500, and the table holds the row of johndoe
\* alone, as it was inserted.
C28_Witness ==
  \E w \in Workers :
    /\ program = "oteltracer" /\ Served(w) /\ call[w].op = "CreateUser"
    /\ call[w].body.username = "janedoe"
    /\ call[w].body.email = "john.doe@example.com"
    /\ ret[w].err = "error creating user: " \o ErrUniqueEmail
    /\ resp[w].status = 500
    /\ store = [k \in {"johndoe"} |-> DummyUser]

-----------------------------------------------------------------------------
\* The path has an identifier and more after it: /users/a/b.
MultiSegment(w) ==
  /\ UnderUsers(w)
  /\ Len(Remainder(w)) >= 3
  /\ Remainder(w)[1] # "/" /\ Remainder(w)[2] = "/" /\ Remainder(w)[3] # "/"

\* The handler that was called is the one for the method and takes an
\* identifier from the path.
ItemHandler(w) ==
  /\ Len(Calls(w, "Handler")) = 1
  /\ <<req[w].method, Calls(w, "Handler")[1].arg>> \in
       { <<"GET", "GetUser">>, <<"PUT", "UpdateUser">>,
         <<"DELETE", "DeleteUser">> }

\* The PUT handler rejects the body.
BodyRejected(w) ==
  /\ req[w].method = "PUT"
  /\ \/ DecodeFails(req[w].body)
     \/ req[w].body.name = "" \/ req[w].body.email = "" \/ req[w].body.age <= 0

\* C29: for a path /users/a/b, in the three programs of the user service,
\* the get, update and delete handlers take a, the second part of the
\* trimmed path, as the username and ignore what follows it: the repository
\* is called for a, which is not the remainder a/b the dispatcher computed,
\* a DELETE answered 204 has removed the row of a, and the request is
\* answered 400 only when it is a PUT whose body is rejected.
C29_FirstSegment ==
  \A w \in Workers :
    ( MultiSegment(w) /\ ItemHandler(w) ) =>
      LET first == Remainder(w)[1]
          parts == Split(Trim(req[w].path, "/"), "/") IN
      /\ Len(parts) > 2 /\ parts[2] = first
      /\ first # Str(Remainder(w))
      /\ resp[w].status = 400 <=> BodyRejected(w)
      /\ ~BodyRejected(w) =>
           /\ call[w].username = first
           /\ call[w].op = CASE req[w].method = "GET" -> "GetUserByUsername"
                             [] req[w].method = "PUT" -> "UpdateUser"
                             [] OTHER -> "DeleteUser"
           /\ Served(w) =>
                /\ Len(Calls(w, "Db")) = 1
                /\ resp[w].status = 204 => first \notin DOMAIN store
                /\ ( resp[w].status = 200 /\ req[w].method = "GET" ) =>
                     resp[w].users = <<store[first]>>

\* DELETE /users/johndoe/janedoe was answered 204 and the row of johndoe is
\* gone.
C29_Witness ==
  \E w \in Workers :
    /\ program = "oteltracer" /\ Served(w) /\ req[w].method = "DELETE"
    /\ req[w].path = UsersPrefix \o <<"johndoe", "/", "janedoe">>
    /\ Str(Remainder(w)) = "johndoe/janedoe"
    /\ call[w].username = "johndoe"
    /\ resp[w].status = 204
    /\ "johndoe" \notin DOMAIN store

-----------------------------------------------------------------------------
\* The repository call of an otelapi request has returned.
StoreReturned(w) ==
  program = "otelapi" /\ Served(w) /\ call[w].op \in StoreOps

\* The failure came from the statement's call (the driver gave up, or the
\* database refused the row), from result.RowsAffected or from rows.Err.
DriverFailed(w) ==
  \/ ret[w].fault \in {"context canceled", "query", "rows", "exec", "affected"}
  \/ /\ ret[w].fault = ""
     /\ ret[w].err \in { pre \o e : pre \in Wraps,
                                    e \in {ErrPrimaryKey, ErrUniqueEmail} }

\* A row of the list could not be scanned.
ScanFailed(w) ==
  /\ call[w].op = "GetAllUsers"
  /\ ret[w].err = "error scanning user: sql: Scan error"

\* C30: in the otelapi repository a method calls RecordError on the span it
\* started exactly when its statement's call, result.RowsAffected or
\* rows.Err failed, once, before it ends the span, and the span holds that
\* error. When no row was found or affected, and when a row of the list
\* could not be scanned, the method returns its error to the handler and
\* its span holds none.
C30_StoreSpanErrors ==
  \A w \in Workers :
    StoreReturned(w) =>
      LET rec == RecordedBy(w, "repo")
          sp == spans[w][Held(spans[w], "repo")] IN
      /\ Held(spans[w], "repo") # 0
      /\ rec # <<>> <=> DriverFailed(w)
      /\ Len(rec) <= 1
      /\ sp.errs = [i \in 1..Len(rec) |-> rec[i].arg]
      /\ DriverFailed(w) =>
           /\ ret[w].err # "" /\ ret[w].err # "user not found" /\ ~ScanFailed(w)
           /\ \E i, j \in 1..Len(log[w]) :
                i < j /\ log[w][i] = rec[1] /\ log[w][j] = End("repo")
      /\ ( ret[w].err = "user not found" \/ ScanFailed(w) ) =>
           /\ rec = <<>> /\ sp.errs = <<>>
           /\ resp[w].status = IF ScanFailed(w) THEN 500 ELSE 404
      /\ ret[w].err = "" => rec = <<>>
      /\ ( ret[w].err # "" /\ ~DriverFailed(w) ) =>
           ( ret[w].err = "user not found" \/ ScanFailed(w) )

\* otelapi: a row of the list could not be scanned: the repository's span
\* holds no error, the handler got the error, recorded it on its own span
\* and answered 500.
C30_Witness ==
  \E w \in Workers :
    /\ StoreReturned(w) /\ call[w].op = "GetAllUsers" /\ ret[w].fault = "scan"
    /\ ScanFailed(w)
    /\ RecordedBy(w, "repo") = <<>>
    /\ spans[w][2].layer = "repo" /\ spans[w][2].errs = <<>>
    /\ spans[w][1].errs = <<ret[w].err>>
    /\ resp[w].status = 500

====
